---- MODULE Spec2Model ----
(***************************************************************************)
(* Model of the habit-tracking backend (backend/main.py, backend/auth.py,   *)
(* backend/models.py): the relational tables, the HTTP handlers that read   *)
(* and write them, JWT verification, the legacy profile merge and the       *)
(* singleton nugget.                                                        *)
(***************************************************************************)
EXTENDS Integers, Sequences, FiniteSets, TLC

(***************************************************************************)
(* Bounds and input domains                                                 *)
(***************************************************************************)
\* Rows stored across the habit-tracking tables, per specification.
MaxWriteRows == 3
MaxOwnRows == 2
MaxHabitRows == 3
MaxListRows == 2
\* Timestamps are 1..MaxDate.
MaxDate == 2

Users == {"ua", "ub"}
Dates == 1..MaxDate
\* Python None / SQL NULL for optional integer and timestamp values.
NULL == -1
\* A field that the request body did not set (pydantic exclude_unset).
UNSET == -2
\* Ids a client may name in a request; 0 is a valid integer that is falsy.
IdInputs == {0, 1, 2}
OptIdInputs == {NULL} \cup IdInputs
OptDates == {NULL} \cup Dates
HabitNames == {"run", "read"}
OrderIndexes == {0, 1}
\* Default of the limit query parameter.
DefaultLimit == 100
SkipInputs == {0, 1}
LimitInputs == {1, DefaultLimit}

VARIABLES
    habits,          \* table habits
    sub_habits,      \* table sub_habits
    checks,          \* table checks
    counts,          \* table counts
    weight_updates,  \* table weight_updates
    active_days,     \* table active_days
    user_settings,   \* table user_settings (legacy profile rows)
    nugget,          \* table nugget
    inflight,        \* nugget requests being handled, each with its position in the handler
    jwks_cache,      \* the lru_cache of _get_jwks
    provider_keys,   \* key ids the identity provider publishes now
    verifying,       \* token verifications in progress, each with its position in _get_jwks
    jwks_fetches,    \* key sets obtained from the provider since the cache was last cleared
    merge_settings,  \* the settings object handed to _merge_from_profile
    merge_profile,   \* the profile dictionary handed to _merge_from_profile
    merge_trace,     \* what each call of _merge_from_profile left and returned
    users,           \* table users
    S3_BUCKET,       \* the bucket name read from the environment at import, or None
    s3_client,       \* whether the storage client handle exists
    s3_uploads,      \* the calls of s3_client.upload_fileobj made so far
    req,             \* the last request handled
    resp             \* the response to it

tables == <<habits, sub_habits, checks, counts, weight_updates, active_days>>
mergeVars == <<merge_settings, merge_profile, merge_trace>>
authVars == <<jwks_cache, provider_keys, verifying, jwks_fetches>>
nuggetVars == <<nugget, inflight>>
uploadVars == <<S3_BUCKET, s3_client, s3_uploads>>
\* Everything the habit-tracking endpoints never touch.
others == <<user_settings, nuggetVars, authVars, mergeVars, users, uploadVars>>
vars == <<tables, user_settings, nuggetVars, authVars, mergeVars, users, uploadVars, req, resp>>

(***************************************************************************)
(* Storage helpers                                                          *)
(***************************************************************************)
MaxOf(S) == CHOOSE x \in S : \A y \in S : y <= x

\* SQLite INTEGER PRIMARY KEY: one more than the largest id in the table.
NextId(table) == IF table = {} THEN 1 ELSE MaxOf({r.id : r \in table}) + 1

RowCount == Cardinality(habits) + Cardinality(sub_habits) + Cardinality(checks)
            + Cardinality(counts) + Cardinality(weight_updates) + Cardinality(active_days)

\* The specifications stop creating rows at their budget.
HasRoom(max) == RowCount < max

\* Python truthiness of an Optional[int] / Optional[datetime] parameter.
Truthy(v) == v # NULL /\ v # 0

Perms(S) == {f \in [1..Cardinality(S) -> S] : \A i, j \in 1..Cardinality(S) : i # j => f[i] # f[j]}

\* Every order a query may return rows in: unordered for a query without ORDER BY.
Unordered(S) == Perms(S)

\* ORDER BY key ASC / DESC; rows with equal keys come in any order.
OrderByAsc(S, column) ==
    {f \in Perms(S) : \A i, j \in 1..Cardinality(S) : i < j => f[i][column] <= f[j][column]}
OrderByDesc(S, column) ==
    {f \in Perms(S) : \A i, j \in 1..Cardinality(S) : i < j => f[i][column] >= f[j][column]}

Min(a, b) == IF a < b THEN a ELSE b

\* query.offset(skip).limit(limit)
Page(s, skip, limit) == SubSeq(s, skip + 1, Min(Len(s), skip + limit))

SeqRange(s) == {s[i] : i \in 1..Len(s)}

(***************************************************************************)
(* Requests and responses                                                   *)
(***************************************************************************)
\* flag is the boolean query parameter of the request (hard_delete, include_deleted).
Request(op, caller, id, sub_id, flag) ==
    [op |-> op, caller |-> caller, id |-> id, sub_id |-> sub_id, flag |-> flag]

\* A listing request that keeps its pagination parameters.
PageRequest(op, caller, flag, skip, limit) ==
    [op |-> op, caller |-> caller, id |-> NULL, sub_id |-> NULL, flag |-> flag,
     skip |-> skip, limit |-> limit]

\* A listing request of an event log with its filters and pagination parameters.
ListRequest(op, caller, habit_id, sub_habit_id, start_date, end_date, skip, limit) ==
    [op |-> op, caller |-> caller, id |-> habit_id, sub_id |-> sub_habit_id, flag |-> FALSE,
     start_date |-> start_date, end_date |-> end_date, skip |-> skip, limit |-> limit]

Ok(rows) == [status |-> 200, detail |-> "", rows |-> rows]

\* raise HTTPException(status_code=..., detail=...)
HTTPException(status, detail) == [status |-> status, detail |-> detail, rows |-> <<>>]

(***************************************************************************)
(* Ownership-scoped row lookups                                             *)
(***************************************************************************)
\* The lookup without its owner filter.
OwnedHabitAnyUser(u, id) == {h \in habits : h.id = id}

\* db.query(Habit).filter(Habit.id == id, Habit.user_id == sub).first()
OwnedHabit(u, id) == {h \in habits : h.id = id /\ h.user_id = u}
OwnedSubHabit(u, id) == {s \in sub_habits : s.id = id /\ s.user_id = u}
OwnedCheck(u, id) == {c \in checks : c.id = id /\ c.user_id = u}
OwnedActiveDay(u, id) == {d \in active_days : d.id = id /\ d.user_id = u}

(***************************************************************************)
(* Habits                                                                   *)
(***************************************************************************)
\* The listing query without its deleted_at filter.
HabitsQueryWithDeleted(u, include_deleted) == {h \in habits : h.user_id = u}

\* query.filter(Habit.user_id == sub), and deleted_at.is_(None) unless include_deleted
HabitsQuery(u, include_deleted) ==
    {h \in habits : h.user_id = u /\ (include_deleted \/ h.deleted_at = NULL)}

get_habits(u, skip, limit, include_deleted) ==
    /\ \E s \in Unordered(HabitsQuery(u, include_deleted)) :
          resp' = Ok(Page(s, skip, limit))
    /\ UNCHANGED others
    /\ req' = PageRequest("get_habits", u, include_deleted, skip, limit)
    /\ UNCHANGED tables

create_habit(u, name) ==
    /\ LET row == [id |-> NextId(habits), user_id |-> u, name |-> name, deleted_at |-> NULL]
       IN /\ habits' = habits \cup {row}
          /\ resp' = Ok(<<row>>)
    /\ UNCHANGED others
    /\ req' = Request("create_habit", u, NULL, NULL, FALSE)
    /\ UNCHANGED <<sub_habits, checks, counts, weight_updates, active_days>>

get_habit(u, id) ==
    /\ UNCHANGED others
    /\ req' = Request("get_habit", u, id, NULL, FALSE)
    /\ IF OwnedHabit(u, id) = {}
       THEN resp' = HTTPException(404, "Habit not found")
       ELSE \E h \in OwnedHabit(u, id) : resp' = Ok(<<h>>)
    /\ UNCHANGED tables

\* An update that replaces the row: a field the body did not set goes back to its default.
ApplyHabitUpdateReplacing(h, name, deleted_at) ==
    [h EXCEPT !.name = IF name = "unset" THEN "" ELSE name,
              !.deleted_at = IF deleted_at = UNSET THEN NULL ELSE deleted_at]

\* setattr(habit, field, value) for every field set in the body
ApplyHabitUpdate(h, name, deleted_at) ==
    [h EXCEPT !.name = IF name = "unset" THEN @ ELSE name,
              !.deleted_at = IF deleted_at = UNSET THEN @ ELSE deleted_at]

update_habit(u, id, name, deleted_at) ==
    /\ UNCHANGED others
    /\ req' = Request("update_habit", u, id, NULL, FALSE)
    /\ IF OwnedHabit(u, id) = {}
       THEN /\ resp' = HTTPException(404, "Habit not found")
            /\ UNCHANGED tables
       ELSE \E h \in OwnedHabit(u, id) :
              LET row == ApplyHabitUpdate(h, name, deleted_at)
              IN /\ habits' = (habits \ {h}) \cup {row}
                 /\ resp' = Ok(<<row>>)
                 /\ UNCHANGED <<sub_habits, checks, counts, weight_updates, active_days>>

\* Rows removed with a sub-habit: relationship SubHabit.checks, cascade="all, delete-orphan".
SubHabitCascadeChecks(sids) == {c \in checks : c.sub_habit_id \in sids}

\* Rows removed with a habit: relationships Habit.sub_habits/checks/counts/weight_updates.
HabitCascadeSubHabits(hid) == {s \in sub_habits : s.parent_habit_id = hid}
\* The cascade without the checks of the habit's sub-habits.
HabitCascadeChecksDirect(hid) == {c \in checks : c.habit_id = hid}

HabitCascadeChecks(hid) ==
    {c \in checks : c.habit_id = hid}
        \cup SubHabitCascadeChecks({s.id : s \in HabitCascadeSubHabits(hid)})
HabitCascadeCounts(hid) == {c \in counts : c.habit_id = hid}
HabitCascadeWeightUpdates(hid) == {w \in weight_updates : w.habit_id = hid}

\* A deletion that removes the habit and its children whatever hard_delete says.
delete_habit_cascading(u, id, hard_delete, now) ==
    /\ UNCHANGED others
    /\ req' = Request("delete_habit", u, id, NULL, hard_delete)
    /\ IF OwnedHabit(u, id) = {}
       THEN /\ resp' = HTTPException(404, "Habit not found")
            /\ UNCHANGED tables
       ELSE \E h \in OwnedHabit(u, id) :
              /\ resp' = Ok(<<>>)
              /\ habits' = habits \ {h}
              /\ sub_habits' = sub_habits \ HabitCascadeSubHabits(h.id)
              /\ checks' = checks \ HabitCascadeChecks(h.id)
              /\ counts' = counts \ HabitCascadeCounts(h.id)
              /\ weight_updates' = weight_updates \ HabitCascadeWeightUpdates(h.id)
              /\ UNCHANGED active_days

delete_habit(u, id, hard_delete, now) ==
    /\ UNCHANGED others
    /\ req' = Request("delete_habit", u, id, NULL, hard_delete)
    /\ IF OwnedHabit(u, id) = {}
       THEN /\ resp' = HTTPException(404, "Habit not found")
            /\ UNCHANGED tables
       ELSE \E h \in OwnedHabit(u, id) :
              /\ resp' = Ok(<<>>)
              /\ IF hard_delete
                 THEN /\ habits' = habits \ {h}
                      /\ sub_habits' = sub_habits \ HabitCascadeSubHabits(h.id)
                      /\ checks' = checks \ HabitCascadeChecks(h.id)
                      /\ counts' = counts \ HabitCascadeCounts(h.id)
                      /\ weight_updates' = weight_updates \ HabitCascadeWeightUpdates(h.id)
                      /\ UNCHANGED active_days
                 ELSE /\ habits' = (habits \ {h}) \cup {[h EXCEPT !.deleted_at = now]}
                      /\ UNCHANGED <<sub_habits, checks, counts, weight_updates, active_days>>

(***************************************************************************)
(* Sub-habits                                                               *)
(***************************************************************************)
get_sub_habits(u, habit_id) ==
    /\ UNCHANGED others
    /\ req' = Request("get_sub_habits", u, habit_id, NULL, FALSE)
    /\ IF OwnedHabit(u, habit_id) = {}
       THEN resp' = HTTPException(404, "Habit not found")
       ELSE \E s \in OrderByAsc({x \in sub_habits : x.parent_habit_id = habit_id /\ x.user_id = u},
                                "order_index") :
              resp' = Ok(s)
    /\ UNCHANGED tables

create_sub_habit(u, parent_habit_id, order_index) ==
    /\ UNCHANGED others
    /\ req' = Request("create_sub_habit", u, parent_habit_id, NULL, FALSE)
    /\ IF OwnedHabit(u, parent_habit_id) = {}
       THEN /\ resp' = HTTPException(404, "Parent habit not found")
            /\ UNCHANGED tables
       ELSE LET row == [id |-> NextId(sub_habits), parent_habit_id |-> parent_habit_id,
                        user_id |-> u, order_index |-> order_index]
            IN /\ sub_habits' = sub_habits \cup {row}
               /\ resp' = Ok(<<row>>)
               /\ UNCHANGED <<habits, checks, counts, weight_updates, active_days>>

update_sub_habit(u, id, order_index) ==
    /\ UNCHANGED others
    /\ req' = Request("update_sub_habit", u, id, NULL, FALSE)
    /\ IF OwnedSubHabit(u, id) = {}
       THEN /\ resp' = HTTPException(404, "Sub-habit not found")
            /\ UNCHANGED tables
       ELSE \E s \in OwnedSubHabit(u, id) :
              LET row == [s EXCEPT !.order_index = IF order_index = UNSET THEN @ ELSE order_index]
              IN /\ sub_habits' = (sub_habits \ {s}) \cup {row}
                 /\ resp' = Ok(<<row>>)
                 /\ UNCHANGED <<habits, checks, counts, weight_updates, active_days>>

delete_sub_habit(u, id) ==
    /\ UNCHANGED others
    /\ req' = Request("delete_sub_habit", u, id, NULL, FALSE)
    /\ IF OwnedSubHabit(u, id) = {}
       THEN /\ resp' = HTTPException(404, "Sub-habit not found")
            /\ UNCHANGED tables
       ELSE \E s \in OwnedSubHabit(u, id) :
              /\ sub_habits' = sub_habits \ {s}
              /\ checks' = checks \ SubHabitCascadeChecks({s.id})
              /\ resp' = Ok(<<>>)
              /\ UNCHANGED <<habits, counts, weight_updates, active_days>>

(***************************************************************************)
(* Checks                                                                   *)
(***************************************************************************)
\* The query without its owner filter.
ChecksQueryAnyUser(u, habit_id, sub_habit_id, start_date, end_date) ==
    {c \in checks : /\ (Truthy(habit_id) => c.habit_id = habit_id)
                    /\ (Truthy(sub_habit_id) => c.sub_habit_id = sub_habit_id)
                    /\ (start_date # NULL => c.check_date >= start_date)
                    /\ (end_date # NULL => c.check_date <= end_date)}

\* The query with the upper bound exclusive.
ChecksQueryOpenEnd(u, habit_id, sub_habit_id, start_date, end_date) ==
    {c \in checks : /\ c.user_id = u
                    /\ (Truthy(habit_id) => c.habit_id = habit_id)
                    /\ (Truthy(sub_habit_id) => c.sub_habit_id = sub_habit_id)
                    /\ (start_date # NULL => c.check_date >= start_date)
                    /\ (end_date # NULL => c.check_date < end_date)}

ChecksQuery(u, habit_id, sub_habit_id, start_date, end_date) ==
    {c \in checks : /\ c.user_id = u
                    /\ (Truthy(habit_id) => c.habit_id = habit_id)
                    /\ (Truthy(sub_habit_id) => c.sub_habit_id = sub_habit_id)
                    /\ (start_date # NULL => c.check_date >= start_date)
                    /\ (end_date # NULL => c.check_date <= end_date)}

get_checks(u, habit_id, sub_habit_id, start_date, end_date, skip, limit) ==
    /\ UNCHANGED others
    /\ req' = ListRequest("get_checks", u, habit_id, sub_habit_id, start_date, end_date, skip, limit)
    /\ \E s \in OrderByDesc(ChecksQuery(u, habit_id, sub_habit_id, start_date, end_date),
                            "check_date") :
          resp' = Ok(Page(s, skip, limit))
    /\ UNCHANGED tables

\* The parent verification of create_check: each id is looked up only when truthy.
CheckParentError(u, habit_id, sub_habit_id) ==
    IF Truthy(habit_id) /\ OwnedHabit(u, habit_id) = {} THEN "Habit not found"
    ELSE IF Truthy(sub_habit_id) /\ OwnedSubHabit(u, sub_habit_id) = {} THEN "Sub-habit not found"
    ELSE ""

create_check(u, habit_id, sub_habit_id, check_date) ==
    /\ UNCHANGED others
    /\ req' = Request("create_check", u, habit_id, sub_habit_id, FALSE)
    /\ IF CheckParentError(u, habit_id, sub_habit_id) # ""
       THEN /\ resp' = HTTPException(404, CheckParentError(u, habit_id, sub_habit_id))
            /\ UNCHANGED tables
       ELSE LET row == [id |-> NextId(checks), user_id |-> u, habit_id |-> habit_id,
                        sub_habit_id |-> sub_habit_id, check_date |-> check_date]
            IN /\ checks' = checks \cup {row}
               /\ resp' = Ok(<<row>>)
               /\ UNCHANGED <<habits, sub_habits, counts, weight_updates, active_days>>

delete_check(u, id) ==
    /\ UNCHANGED others
    /\ req' = Request("delete_check", u, id, NULL, FALSE)
    /\ IF OwnedCheck(u, id) = {}
       THEN /\ resp' = HTTPException(404, "Check not found")
            /\ UNCHANGED tables
       ELSE \E c \in OwnedCheck(u, id) :
              /\ checks' = checks \ {c}
              /\ resp' = Ok(<<>>)
              /\ UNCHANGED <<habits, sub_habits, counts, weight_updates, active_days>>

(***************************************************************************)
(* Counts and weight updates                                                *)
(***************************************************************************)
CountsQuery(u, habit_id, start_date, end_date) ==
    {c \in counts : /\ c.user_id = u
                    /\ (Truthy(habit_id) => c.habit_id = habit_id)
                    /\ (start_date # NULL => c.count_date >= start_date)
                    /\ (end_date # NULL => c.count_date <= end_date)}

\* A create_count that keeps one row per habit and date: it replaces the row of the
\* same habit and date by one that carries the sum of the values.
create_count_upserting(u, habit_id, value, count_date) ==
    /\ UNCHANGED others
    /\ req' = Request("create_count", u, habit_id, NULL, FALSE)
    /\ IF OwnedHabit(u, habit_id) = {}
       THEN /\ resp' = HTTPException(404, "Habit not found")
            /\ UNCHANGED tables
       ELSE LET same == {c \in counts : c.habit_id = habit_id /\ c.count_date = count_date}
                row == IF same = {}
                       THEN [id |-> NextId(counts), user_id |-> u, habit_id |-> habit_id,
                             value |-> value, count_date |-> count_date]
                       ELSE LET c == CHOOSE c \in same : TRUE
                            IN [c EXCEPT !.value = c.value + value]
            IN /\ counts' = (counts \ same) \cup {row}
               /\ resp' = Ok(<<row>>)
               /\ UNCHANGED <<habits, sub_habits, checks, weight_updates, active_days>>

get_counts(u, habit_id, start_date, end_date, skip, limit) ==
    /\ UNCHANGED others
    /\ req' = ListRequest("get_counts", u, habit_id, NULL, start_date, end_date, skip, limit)
    /\ \E s \in OrderByDesc(CountsQuery(u, habit_id, start_date, end_date), "count_date") :
          resp' = Ok(Page(s, skip, limit))
    /\ UNCHANGED tables

create_count(u, habit_id, value, count_date) ==
    /\ UNCHANGED others
    /\ req' = Request("create_count", u, habit_id, NULL, FALSE)
    /\ IF OwnedHabit(u, habit_id) = {}
       THEN /\ resp' = HTTPException(404, "Habit not found")
            /\ UNCHANGED tables
       ELSE LET row == [id |-> NextId(counts), user_id |-> u, habit_id |-> habit_id,
                        value |-> value, count_date |-> count_date]
            IN /\ counts' = counts \cup {row}
               /\ resp' = Ok(<<row>>)
               /\ UNCHANGED <<habits, sub_habits, checks, weight_updates, active_days>>

WeightUpdatesQuery(u, habit_id, start_date, end_date) ==
    {w \in weight_updates : /\ w.user_id = u
                            /\ (Truthy(habit_id) => w.habit_id = habit_id)
                            /\ (start_date # NULL => w.update_date >= start_date)
                            /\ (end_date # NULL => w.update_date <= end_date)}

get_weight_updates(u, habit_id, start_date, end_date, skip, limit) ==
    /\ UNCHANGED others
    /\ req' = ListRequest("get_weight_updates", u, habit_id, NULL, start_date, end_date, skip, limit)
    /\ \E s \in OrderByDesc(WeightUpdatesQuery(u, habit_id, start_date, end_date), "update_date") :
          resp' = Ok(Page(s, skip, limit))
    /\ UNCHANGED tables

create_weight_update(u, habit_id, weight, update_date) ==
    /\ UNCHANGED others
    /\ req' = Request("create_weight_update", u, habit_id, NULL, FALSE)
    /\ IF OwnedHabit(u, habit_id) = {}
       THEN /\ resp' = HTTPException(404, "Habit not found")
            /\ UNCHANGED tables
       ELSE LET row == [id |-> NextId(weight_updates), user_id |-> u, habit_id |-> habit_id,
                        weight |-> weight, update_date |-> update_date]
            IN /\ weight_updates' = weight_updates \cup {row}
               /\ resp' = Ok(<<row>>)
               /\ UNCHANGED <<habits, sub_habits, checks, counts, active_days>>

(***************************************************************************)
(* Active days                                                              *)
(***************************************************************************)
ActiveDaysQuery(u, start_date, end_date) ==
    {d \in active_days : /\ d.user_id = u
                         /\ (start_date # NULL => d.date >= start_date)
                         /\ (end_date # NULL => d.date <= end_date)}

get_active_days(u, start_date, end_date, skip, limit) ==
    /\ UNCHANGED others
    /\ req' = ListRequest("get_active_days", u, NULL, NULL, start_date, end_date, skip, limit)
    /\ \E s \in OrderByDesc(ActiveDaysQuery(u, start_date, end_date), "date") :
          resp' = Ok(Page(s, skip, limit))
    /\ UNCHANGED tables

create_active_day(u, date, validated) ==
    /\ UNCHANGED others
    /\ req' = Request("create_active_day", u, NULL, NULL, FALSE)
    /\ LET row == [id |-> NextId(active_days), user_id |-> u, date |-> date,
                   validated |-> validated]
       IN /\ active_days' = active_days \cup {row}
          /\ resp' = Ok(<<row>>)
    /\ UNCHANGED <<habits, sub_habits, checks, counts, weight_updates>>

\* validated is an Optional[bool] query parameter: given says whether it is not None.
update_active_day(u, id, given, validated) ==
    /\ UNCHANGED others
    /\ req' = Request("update_active_day", u, id, NULL, FALSE)
    /\ IF OwnedActiveDay(u, id) = {}
       THEN /\ resp' = HTTPException(404, "Active day not found")
            /\ UNCHANGED tables
       ELSE \E d \in OwnedActiveDay(u, id) :
              LET row == [d EXCEPT !.validated = IF given THEN validated ELSE @]
              IN /\ active_days' = (active_days \ {d}) \cup {row}
                 /\ resp' = Ok(<<row>>)
                 /\ UNCHANGED <<habits, sub_habits, checks, counts, weight_updates>>

(***************************************************************************)
(* Legacy profile settings                                                  *)
(***************************************************************************)
\* Python None for optional strings; "" is the empty string.
None == "None"
\* not value
Falsy(v) == v = None \/ v = ""

\* models.UserSettings(user_id=sub): every profile column NULL.
NewSettings(u) ==
    [user_id |-> u, name |-> None, nickname |-> None, email |-> None, image_url |-> None]

\* A profile dictionary; a key that is absent reads as None through dict.get.
Profile(name, nickname, email, picture) ==
    [name |-> name, nickname |-> nickname, email |-> email, picture |-> picture]

EmptyProfile == Profile(None, None, None, None)

\* A merge that assigns every value the profile carries, empty field or not.
MergeFromProfileOverwriting(settings, profile_data) ==
    LET name == IF ~Falsy(profile_data.name) THEN profile_data.name
                ELSE IF ~Falsy(profile_data.nickname) THEN profile_data.nickname
                ELSE settings.name
        nickname == IF ~Falsy(profile_data.nickname) THEN profile_data.nickname
                    ELSE IF ~Falsy(profile_data.name) THEN profile_data.name
                    ELSE settings.nickname
        email == IF ~Falsy(profile_data.email) THEN profile_data.email ELSE settings.email
        image_url == IF ~Falsy(profile_data.picture) THEN profile_data.picture
                     ELSE settings.image_url
        merged == [settings EXCEPT !.name = name, !.nickname = nickname,
                                   !.email = email, !.image_url = image_url]
    IN [settings |-> merged, updated |-> merged # settings]

\* A merge that fills as the code does but reports a change whenever the profile
\* carries a value.
MergeFromProfileReporting(settings, profile_data) ==
    LET name == IF Falsy(settings.name) /\ ~Falsy(profile_data.name) THEN profile_data.name
                ELSE IF Falsy(settings.name) /\ ~Falsy(profile_data.nickname)
                     THEN profile_data.nickname
                ELSE settings.name
        nickname == IF Falsy(settings.nickname) /\ ~Falsy(profile_data.nickname)
                    THEN profile_data.nickname
                    ELSE IF Falsy(settings.nickname) /\ ~Falsy(profile_data.name)
                         THEN profile_data.name
                    ELSE settings.nickname
        email == IF Falsy(settings.email) /\ ~Falsy(profile_data.email)
                 THEN profile_data.email ELSE settings.email
        image_url == IF Falsy(settings.image_url) /\ ~Falsy(profile_data.picture)
                     THEN profile_data.picture ELSE settings.image_url
    IN [settings |-> [settings EXCEPT !.name = name, !.nickname = nickname,
                                      !.email = email, !.image_url = image_url],
        updated |-> \/ ~Falsy(profile_data.name) \/ ~Falsy(profile_data.nickname)
                    \/ ~Falsy(profile_data.email) \/ ~Falsy(profile_data.picture)]

\* A merge that fills each empty field from the profile entry of the same name only.
MergeFromProfileNoFallback(settings, profile_data) ==
    LET Fill(old, new) == IF Falsy(old) /\ ~Falsy(new) THEN new ELSE old
        merged == [settings EXCEPT !.name = Fill(@, profile_data.name),
                                   !.nickname = Fill(@, profile_data.nickname),
                                   !.email = Fill(@, profile_data.email),
                                   !.image_url = Fill(@, profile_data.picture)]
    IN [settings |-> merged, updated |-> merged # settings]

\* _merge_from_profile: the settings object it leaves and the flag it returns.
MergeFromProfile(settings, profile_data) ==
    LET name == IF Falsy(settings.name) /\ ~Falsy(profile_data.name) THEN profile_data.name
                ELSE IF Falsy(settings.name) /\ ~Falsy(profile_data.nickname)
                     THEN profile_data.nickname
                ELSE settings.name
        nickname == IF Falsy(settings.nickname) /\ ~Falsy(profile_data.nickname)
                    THEN profile_data.nickname
                    ELSE IF Falsy(settings.nickname) /\ ~Falsy(profile_data.name)
                         THEN profile_data.name
                    ELSE settings.nickname
        email == IF Falsy(settings.email) /\ ~Falsy(profile_data.email)
                 THEN profile_data.email ELSE settings.email
        image_url == IF Falsy(settings.image_url) /\ ~Falsy(profile_data.picture)
                     THEN profile_data.picture ELSE settings.image_url
        updated == \/ Falsy(settings.name)
                      /\ (~Falsy(profile_data.name) \/ ~Falsy(profile_data.nickname))
                   \/ Falsy(settings.nickname)
                      /\ (~Falsy(profile_data.nickname) \/ ~Falsy(profile_data.name))
                   \/ Falsy(settings.email) /\ ~Falsy(profile_data.email)
                   \/ Falsy(settings.image_url) /\ ~Falsy(profile_data.picture)
    IN [settings |-> [settings EXCEPT !.name = name, !.nickname = nickname,
                                      !.email = email, !.image_url = image_url],
        updated |-> updated]

\* all([settings.name, settings.nickname, settings.email, settings.image_url])
AllProfileFields(settings) ==
    /\ ~Falsy(settings.name)
    /\ ~Falsy(settings.nickname)
    /\ ~Falsy(settings.email)
    /\ ~Falsy(settings.image_url)

\* db.query(UserSettings).filter(UserSettings.user_id == sub).first()
OwnedSettings(u) == {r \in user_settings : r.user_id = u}

\* The row read_settings works on: the stored one, or the one it creates.
SettingsOrNew(u) ==
    IF OwnedSettings(u) = {} THEN NewSettings(u) ELSE CHOOSE r \in OwnedSettings(u) : TRUE

\* needs_userinfo and request, a header that starts with "Bearer ", and
\* fetch_auth0_userinfo getting past its AUTH0_DOMAIN test: a request is sent.
UserinfoRequested(settings, bearer_prefix, domain_set) ==
    ~AllProfileFields(settings) /\ bearer_prefix /\ domain_set

\* The body read_settings returns.
SettingsBody(settings) ==
    [name |-> IF Falsy(settings.name) THEN "" ELSE settings.name,
     nickname |-> IF Falsy(settings.nickname) THEN "" ELSE settings.nickname,
     email |-> IF Falsy(settings.email) THEN "" ELSE settings.email,
     imageUrl |-> IF Falsy(settings.image_url) THEN "" ELSE settings.image_url]

SettingsRequest(op, caller, claims, sent) ==
    [op |-> op, caller |-> caller, id |-> NULL, sub_id |-> NULL, flag |-> sent, claims |-> claims]

\* A GET /api/settings that merges the userinfo answer before the token claims.
read_settings_userinfo_first(u, claims, bearer_prefix, domain_set, fetched) ==
    LET settings == SettingsOrNew(u)
        sent == UserinfoRequested(settings, bearer_prefix, domain_set)
        userinfo == IF sent THEN fetched ELSE EmptyProfile
        from_userinfo == MergeFromProfile(settings, userinfo)
        from_jwt == MergeFromProfile(from_userinfo.settings, claims)
    IN /\ user_settings' = (user_settings \ OwnedSettings(u)) \cup {from_jwt.settings}
       /\ req' = SettingsRequest("read_settings", u, claims, sent)
       /\ resp' = Ok(<<SettingsBody(from_jwt.settings)>>)
       /\ UNCHANGED <<tables, nuggetVars, users, uploadVars, authVars, mergeVars>>

\* claims: the profile claims of the verified token; fetched: what the userinfo
\* endpoint answers if asked (EmptyProfile for an error or a non-200 answer).
read_settings(u, claims, bearer_prefix, domain_set, fetched) ==
    LET settings == SettingsOrNew(u)
        sent == UserinfoRequested(settings, bearer_prefix, domain_set)
        userinfo == IF sent THEN fetched ELSE EmptyProfile
        from_jwt == MergeFromProfile(settings, claims)
        from_userinfo == MergeFromProfile(from_jwt.settings, userinfo)
        merged == IF userinfo # EmptyProfile THEN from_userinfo.settings ELSE from_jwt.settings
        updated == IF userinfo # EmptyProfile THEN from_userinfo.updated \/ from_jwt.updated
                   ELSE from_jwt.updated
    IN /\ user_settings' = (user_settings \ OwnedSettings(u))
                               \cup {IF updated THEN merged ELSE settings}
       /\ req' = SettingsRequest("read_settings", u, claims, sent)
       /\ resp' = Ok(<<SettingsBody(merged)>>)
       /\ UNCHANGED <<tables, nuggetVars, users, uploadVars, authVars, mergeVars>>

\* data: SettingsIn, a field that is None is left alone.
update_settings(u, data) ==
    LET settings == SettingsOrNew(u)
        row == [settings EXCEPT !.name = IF data.name # None THEN data.name ELSE @,
                                !.nickname = IF data.nickname # None THEN data.nickname ELSE @,
                                !.email = IF data.email # None THEN data.email ELSE @,
                                !.image_url = IF data.picture # None THEN data.picture ELSE @]
    IN /\ user_settings' = (user_settings \ OwnedSettings(u)) \cup {row}
       /\ req' = SettingsRequest("update_settings", u, EmptyProfile, FALSE)
       /\ resp' = Ok(<<>>)
       /\ UNCHANGED <<tables, nuggetVars, users, uploadVars, authVars, mergeVars>>

\* Number of consecutive calls of _merge_from_profile on one object.
MaxMerges == 2

\* One call of _merge_from_profile on the object and the dictionary drawn at the start.
merge_from_profile ==
    /\ Len(merge_trace) < MaxMerges
    /\ merge_settings' = MergeFromProfile(merge_settings, merge_profile).settings
    /\ merge_trace' = Append(merge_trace, MergeFromProfile(merge_settings, merge_profile))
    /\ UNCHANGED <<merge_profile, tables, user_settings, nuggetVars, users, uploadVars, authVars, req, resp>>

(***************************************************************************)
(* Token verification                                                       *)
(***************************************************************************)
Kids == {"k1", "k2"}
\* The kid of a token header: a key id, or no "kid" entry at all.
TokenKids == Kids \cup {"absent"}
\* Who signed the token: the holder of one of the provider's keys, or someone else.
Signers == Kids \cup {"forged"}

Token(header_ok, kid, signer, iss_ok, aud_ok, expired, sub) ==
    [header_ok |-> header_ok, kid |-> kid, signer |-> signer, iss_ok |-> iss_ok,
     aud_ok |-> aud_ok, expired |-> expired, sub |-> sub]

Tokens ==
    {Token(h, k, s, i, a, e, "ua") :
        h \in BOOLEAN, k \in TokenKids, s \in Signers, i \in BOOLEAN, a \in BOOLEAN, e \in BOOLEAN}

NoCache == [cached |-> FALSE, keys |-> {}]

Returned(value) == [raised |-> "", value |-> value, status |-> 200, detail |-> ""]
Raised(kind, status, detail) == [raised |-> kind, value |-> "", status |-> status, detail |-> detail]

\* _get_rsa_key: the key it returns or the exception that leaves it. fetch_error says
\* that _get_jwks had to fetch and the fetch raised.
GetRsaKey(token, jwks, fetch_error) ==
    IF ~token.header_ok THEN Raised("JWTError", 0, "")
    ELSE IF fetch_error THEN Raised("HTTPError", 0, "")
    ELSE IF jwks = {} THEN Raised("HTTPException", 401, "Invalid authorization header")
    ELSE IF token.kid = "absent" THEN Raised("KeyError", 0, "")
    ELSE IF token.kid \in jwks THEN Returned(token.kid)
    ELSE Raised("HTTPException", 401, "Invalid authorization header")

\* jwt.decode with the located key, the configured audience and issuer.
JwtDecode(token, key) ==
    IF token.signer # key THEN Raised("JWTError", 0, "")
    ELSE IF token.expired THEN Raised("ExpiredSignatureError", 0, "")
    ELSE IF ~token.aud_ok THEN Raised("JWTClaimsError", 0, "")
    ELSE IF ~token.iss_ok THEN Raised("JWTClaimsError", 0, "")
    ELSE Returned(token.sub)

\* The body of the try block of verify_jwt.
VerifyOutcome(token, jwks, fetch_error) ==
    LET rsa_key == GetRsaKey(token, jwks, fetch_error)
    IN IF rsa_key.raised # "" THEN rsa_key ELSE JwtDecode(token, rsa_key.value)

\* A handler that catches JWTError alone: an HTTPException leaves as raised and any
\* other exception becomes the 500 of log_unhandled_exception.
VerifyJwtResponseJwtOnly(outcome) ==
    IF outcome.raised = "" THEN Ok(<<[sub |-> outcome.value]>>)
    ELSE IF outcome.raised \in {"JWTError", "ExpiredSignatureError", "JWTClaimsError"}
         THEN HTTPException(401, "Could not validate credentials")
    ELSE IF outcome.raised = "HTTPException" THEN HTTPException(outcome.status, outcome.detail)
    ELSE HTTPException(500, "Internal Server Error")

\* A dependency that hands a payload to the handler whatever the verification found.
VerifyJwtResponseUnverified(outcome) ==
    Ok(<<[sub |-> IF outcome.raised = "" THEN outcome.value ELSE "ua"]>>)

\* except Exception: raise HTTPException(401, "Could not validate credentials")
VerifyJwtResponse(outcome) ==
    IF outcome.raised = "" THEN Ok(<<[sub |-> outcome.value]>>)
    ELSE HTTPException(401, "Could not validate credentials")

TokenRequest(token, fetched) ==
    [op |-> "verify_jwt", caller |-> token.sub, id |-> NULL, sub_id |-> NULL, flag |-> fetched,
     token |-> token]

\* fetch_ok: whether a request to the provider's key-set URL would succeed now.
verify_jwt(token, fetch_ok) ==
    LET must_fetch == token.header_ok /\ ~jwks_cache.cached
        jwks == IF jwks_cache.cached THEN jwks_cache.keys ELSE provider_keys
    IN /\ jwks_cache' = IF must_fetch /\ fetch_ok
                        THEN [cached |-> TRUE, keys |-> provider_keys] ELSE jwks_cache
       /\ jwks_fetches' = IF must_fetch /\ fetch_ok THEN jwks_fetches + 1 ELSE jwks_fetches
       /\ resp' = VerifyJwtResponse(VerifyOutcome(token, jwks, must_fetch /\ ~fetch_ok))
       /\ req' = TokenRequest(token, must_fetch)
       /\ UNCHANGED <<provider_keys, verifying, tables, user_settings, nuggetVars, users,
                      uploadVars, mergeVars>>

\* The identity provider publishes another key set.
rotate_keys(keys) ==
    /\ provider_keys # keys
    /\ provider_keys' = keys
    /\ UNCHANGED <<jwks_cache, verifying, jwks_fetches, tables, user_settings, nuggetVars, users,
                   uploadVars, mergeVars, req, resp>>

\* _get_jwks.cache_clear()
cache_clear ==
    /\ jwks_cache.cached
    /\ jwks_cache' = NoCache
    /\ jwks_fetches' = 0
    /\ UNCHANGED <<provider_keys, verifying, tables, user_settings, nuggetVars, users, uploadVars,
                   mergeVars, req, resp>>

(***************************************************************************)
(* Nugget: the handlers run in a thread pool, one database session each, so *)
(* their statements interleave.                                             *)
(***************************************************************************)
\* Number of nugget requests handled at the same time.
MaxRequests == 2
Slots == 1..MaxRequests

FallbackNugget == "Wisdom comes from experience, and experience comes from making mistakes."
\* What the completion call gives: a text, or an exception.
Completions == {"w1", "w2", "raise"}

Idle == [kind |-> "idle", pc |-> "idle", seen |-> 0, text |-> ""]

\* A generator that answers the fixed string when the completion call raises.
GenerateNuggetCatching(client, completion) ==
    IF ~client \/ completion = "raise" THEN FallbackNugget ELSE completion

\* generate_nugget: the fixed string without a client, else the completion.
GenerateNugget(client, completion) == IF ~client THEN FallbackNugget ELSE completion

NuggetRequest(op) == Request(op, "ua", NULL, NULL, FALSE)
NuggetBody(text) == Ok(<<[text |-> text]>>)
\* log_unhandled_exception
InternalServerError == HTTPException(500, "Internal Server Error")

nuggetFrame == <<tables, user_settings, authVars, mergeVars, users, uploadVars>>

\* A request arrives and a worker thread takes it.
nugget_request(i, kind) ==
    /\ inflight[i] = Idle
    /\ inflight' = [inflight EXCEPT ![i] = [Idle EXCEPT !.kind = kind, !.pc = "start"]]
    /\ UNCHANGED <<nugget, req, resp, nuggetFrame>>

\* read_nugget: nugget = db.query(Nugget).first(); a stored row is returned at once.
read_nugget_query(i) ==
    /\ inflight[i].kind = "read_nugget" /\ inflight[i].pc = "start"
    /\ IF nugget = {}
       THEN /\ inflight' = [inflight EXCEPT ![i].pc = "generate"]
            /\ UNCHANGED <<req, resp>>
       ELSE /\ \E n \in nugget : resp' = NuggetBody(n.text)
            /\ req' = NuggetRequest("read_nugget")
            /\ inflight' = [inflight EXCEPT ![i] = Idle]
    /\ UNCHANGED <<nugget, nuggetFrame>>

\* read_nugget: text = generate_nugget()
read_nugget_generate(i, client, completion) ==
    /\ inflight[i].kind = "read_nugget" /\ inflight[i].pc = "generate"
    /\ IF GenerateNugget(client, completion) = "raise"
       THEN /\ resp' = InternalServerError
            /\ req' = NuggetRequest("read_nugget")
            /\ inflight' = [inflight EXCEPT ![i] = Idle]
       ELSE /\ inflight' = [inflight EXCEPT ![i].pc = "insert",
                                            ![i].text = GenerateNugget(client, completion)]
            /\ UNCHANGED <<req, resp>>
    /\ UNCHANGED <<nugget, nuggetFrame>>

\* read_nugget: db.add(nugget); db.commit(); db.refresh(nugget); return
read_nugget_insert(i) ==
    /\ inflight[i].kind = "read_nugget" /\ inflight[i].pc = "insert"
    /\ nugget' = nugget \cup {[id |-> NextId(nugget), text |-> inflight[i].text]}
    /\ resp' = NuggetBody(inflight[i].text)
    /\ req' = NuggetRequest("read_nugget")
    /\ inflight' = [inflight EXCEPT ![i] = Idle]
    /\ UNCHANGED nuggetFrame

\* regenerate_nugget: text = generate_nugget()
regenerate_nugget_generate(i, client, completion) ==
    /\ inflight[i].kind = "regenerate_nugget" /\ inflight[i].pc = "start"
    /\ IF GenerateNugget(client, completion) = "raise"
       THEN /\ resp' = InternalServerError
            /\ req' = NuggetRequest("regenerate_nugget")
            /\ inflight' = [inflight EXCEPT ![i] = Idle]
       ELSE /\ inflight' = [inflight EXCEPT ![i].pc = "query",
                                            ![i].text = GenerateNugget(client, completion)]
            /\ UNCHANGED <<req, resp>>
    /\ UNCHANGED <<nugget, nuggetFrame>>

\* regenerate_nugget: nugget = db.query(Nugget).first()
regenerate_nugget_query(i) ==
    /\ inflight[i].kind = "regenerate_nugget" /\ inflight[i].pc = "query"
    /\ IF nugget = {}
       THEN inflight' = [inflight EXCEPT ![i].pc = "write", ![i].seen = 0]
       ELSE \E n \in nugget : inflight' = [inflight EXCEPT ![i].pc = "write", ![i].seen = n.id]
    /\ UNCHANGED <<nugget, req, resp, nuggetFrame>>

\* regenerate_nugget: db.add(Nugget(text)) or nugget.text = text; db.commit(); return
regenerate_nugget_write(i) ==
    /\ inflight[i].kind = "regenerate_nugget" /\ inflight[i].pc = "write"
    /\ nugget' = IF inflight[i].seen = 0
                 THEN nugget \cup {[id |-> NextId(nugget), text |-> inflight[i].text]}
                 ELSE {IF n.id = inflight[i].seen THEN [n EXCEPT !.text = inflight[i].text] ELSE n :
                          n \in nugget}
    /\ resp' = NuggetBody(inflight[i].text)
    /\ req' = NuggetRequest("regenerate_nugget")
    /\ inflight' = [inflight EXCEPT ![i] = Idle]
    /\ UNCHANGED nuggetFrame

(***************************************************************************)
(* Token verification by steps: verify_jwt is a synchronous dependency, so  *)
(* several requests run it in worker threads and meet in _get_jwks.         *)
(***************************************************************************)
NotVerifying == [pc |-> "idle", token |-> "", keys |-> {}]

\* lru_cache after the wrapped call: the result is stored unless the entry was
\* added while the call ran.
LruCacheStoreAlways(cache, result) == [cached |-> TRUE, keys |-> result]

LruCacheStore(cache, result) ==
    IF cache.cached THEN cache ELSE [cached |-> TRUE, keys |-> result]

\* verify_jwt up to the cache lookup of _get_jwks: a token without a readable
\* header never reaches it, a cache hit lets the verification run to its end.
verify_jwt_begin(i, token) ==
    /\ verifying[i].pc = "idle"
    /\ IF ~token.header_ok \/ jwks_cache.cached
       THEN /\ resp' = VerifyJwtResponse(VerifyOutcome(token, jwks_cache.keys, FALSE))
            /\ req' = TokenRequest(token, FALSE)
            /\ verifying' = verifying
       ELSE /\ verifying' = [verifying EXCEPT ![i] = [pc |-> "request", token |-> token, keys |-> {}]]
            /\ UNCHANGED <<req, resp>>
    /\ UNCHANGED <<jwks_cache, provider_keys, jwks_fetches,
                   tables, user_settings, nuggetVars, users, uploadVars, mergeVars>>

\* A _get_jwks whose cache also keeps the outcome of a fetch that raised, as an
\* empty key set.
get_jwks_request_memoizing_failure(i, fetch_ok) ==
    /\ verifying[i].pc = "request"
    /\ IF fetch_ok
       THEN /\ verifying' = [verifying EXCEPT ![i].pc = "return", ![i].keys = provider_keys]
            /\ jwks_fetches' = jwks_fetches + 1
            /\ UNCHANGED <<req, resp, jwks_cache>>
       ELSE /\ resp' = VerifyJwtResponse(VerifyOutcome(verifying[i].token, {}, TRUE))
            /\ req' = TokenRequest(verifying[i].token, TRUE)
            /\ verifying' = [verifying EXCEPT ![i] = NotVerifying]
            /\ jwks_cache' = [cached |-> TRUE, keys |-> {}]
            /\ UNCHANGED jwks_fetches
    /\ UNCHANGED <<provider_keys,
                   tables, user_settings, nuggetVars, users, uploadVars, mergeVars>>

\* _get_jwks: response = requests.get(jwks_url); response.raise_for_status()
get_jwks_request(i, fetch_ok) ==
    /\ verifying[i].pc = "request"
    /\ IF fetch_ok
       THEN /\ verifying' = [verifying EXCEPT ![i].pc = "return", ![i].keys = provider_keys]
            /\ jwks_fetches' = jwks_fetches + 1
            /\ UNCHANGED <<req, resp>>
       ELSE /\ resp' = VerifyJwtResponse(VerifyOutcome(verifying[i].token, {}, TRUE))
            /\ req' = TokenRequest(verifying[i].token, TRUE)
            /\ verifying' = [verifying EXCEPT ![i] = NotVerifying]
            /\ UNCHANGED jwks_fetches
    /\ UNCHANGED <<jwks_cache, provider_keys,
                   tables, user_settings, nuggetVars, users, uploadVars, mergeVars>>

\* _get_jwks: return response.json(), which lru_cache stores; then the rest of
\* verify_jwt with the key set this call obtained.
get_jwks_return(i) ==
    /\ verifying[i].pc = "return"
    /\ jwks_cache' = LruCacheStore(jwks_cache, verifying[i].keys)
    /\ resp' = VerifyJwtResponse(VerifyOutcome(verifying[i].token, verifying[i].keys, FALSE))
    /\ req' = TokenRequest(verifying[i].token, TRUE)
    /\ verifying' = [verifying EXCEPT ![i] = NotVerifying]
    /\ UNCHANGED <<provider_keys, jwks_fetches,
                   tables, user_settings, nuggetVars, users, uploadVars, mergeVars>>

(***************************************************************************)
(* Profile picture upload to object storage.                                *)
(***************************************************************************)
\* Number of storage uploads followed.
MaxUploads == 2

\* ALLOWED_CONTENT_TYPES: accepted MIME type -> file extension.
ALLOWED_CONTENT_TYPES ==
    [t \in {"image/png", "image/jpeg", "image/jpg"} |->
        IF t = "image/png" THEN ".png" ELSE ".jpg"]

\* MAX_UPLOAD_SIZE with MAX_UPLOAD_SIZE unset in the environment: 5 MB.
MAX_UPLOAD_SIZE == 5 * 1024 * 1024

\* str.lower() on the declared content types drawn below.
Lower(s) ==
    CASE s = "IMAGE/PNG" -> "image/png"
      [] s = "Image/GIF" -> "image/gif"
      [] OTHER -> s

\* os.path.splitext(name)[1] on the file names drawn below.
Splitext(name) ==
    CASE name = "me.png" -> ".png"
      [] name = "me.jpeg" -> ".jpeg"
      [] OTHER -> ""

\* An UploadFile: bytes is the length of the stream, size the attribute the
\* multipart parser keeps (the bytes it wrote), seekable whether tell/seek work.
UploadFile(filename, content_type, bytes, seekable) ==
    [filename |-> filename, content_type |-> content_type, bytes |-> bytes,
     size |-> bytes, seekable |-> seekable]

\* The size left at 0, "unknown", whatever the stream holds.
UploadSizeUnknown(file) == 0

\* "Determine size (best-effort)": the end of the stream, else file.size or 0.
UploadSize(file) ==
    IF file.seekable THEN file.bytes
    ELSE IF file.size = NULL THEN 0 ELSE file.size

\* ext = os.path.splitext(file.filename or "image")[1], else the MIME-derived one.
UploadExt(file, content_type) ==
    LET ext == Splitext(IF Falsy(file.filename) THEN "image" ELSE file.filename)
    IN  IF ext = "" THEN ALLOWED_CONTENT_TYPES[content_type] ELSE ext

\* key = f"profile_pics/{user['sub']}/{uuid4().hex}{ext}"
UploadKey(u, uuid, ext) == [prefix |-> "profile_pics", sub |-> u, uuid |-> uuid, ext |-> ext]

\* s3_client.upload_fileobj(file.file, S3_BUCKET, key, ExtraArgs={"ContentType": ...})
UploadCall(bucket, key, content_type) ==
    [Bucket |-> bucket, Key |-> key, ContentType |-> content_type]

\* str(e) of the AttributeError raised by None.upload_fileobj
NoneTypeError == "'NoneType' object has no attribute 'upload_fileobj'"

\* What upload_fileobj does: returns, or raises with one of these messages.
UploadOutcomes == {"ok", "S3 Error", "Could not connect to the endpoint URL"}

\* detail=f"Upload failed: {str(e)}"
UploadFailed(message) == "Upload failed: " \o message

UploadRequest(u, file) ==
    [op |-> "upload_profile_picture", caller |-> u, id |-> NULL, sub_id |-> NULL,
     flag |-> FALSE, file |-> file]

\* POST /api/upload-profile-picture
upload_profile_picture(u, file, uuid, outcome) ==
    LET content_type == Lower(IF Falsy(file.content_type) THEN "" ELSE file.content_type)
        size == UploadSize(file)
        key == UploadKey(u, uuid, UploadExt(file, content_type))
    IN /\ req' = UploadRequest(u, file)
       /\ IF Falsy(S3_BUCKET)
          THEN /\ resp' = HTTPException(500, "S3 bucket not configured")
               /\ s3_uploads' = s3_uploads
          ELSE IF content_type \notin DOMAIN ALLOWED_CONTENT_TYPES
          THEN /\ resp' = HTTPException(400, "Unsupported content type")
               /\ s3_uploads' = s3_uploads
          ELSE IF size # 0 /\ size > MAX_UPLOAD_SIZE
          THEN /\ resp' = HTTPException(413, "File too large")
               /\ s3_uploads' = s3_uploads
          ELSE IF ~s3_client
          THEN /\ resp' = HTTPException(500, UploadFailed(NoneTypeError))
               /\ s3_uploads' = s3_uploads
          ELSE /\ s3_uploads' = Append(s3_uploads, UploadCall(S3_BUCKET, key, file.content_type))
               /\ resp' = IF outcome = "ok"
                          THEN Ok(<<[url |-> [bucket |-> S3_BUCKET, key |-> key]]>>)
                          ELSE HTTPException(500, UploadFailed(outcome))
       /\ UNCHANGED <<S3_BUCKET, s3_client, users, tables, user_settings, nuggetVars,
                      authVars, mergeVars>>

(***************************************************************************)
(* User records                                                             *)
(***************************************************************************)
\* A key the token payload does not have / a field the request body leaves out.
Absent == "<absent>"

\* dict.get(key, default)
DictGet(value, default) == IF value = Absent THEN default ELSE value

\* models.User(id=..., email=..., name=..., nickname=..., image_url=...)
User(id, email, name, nickname, image_url) ==
    [id |-> id, email |-> email, name |-> name, nickname |-> nickname, image_url |-> image_url]

\* db.query(models.User).filter(models.User.id == current_user["sub"]).first()
UserById(u) == {r \in users : r.id = u}

\* A users table whose email column is NOT NULL but not UNIQUE.
UserRowAcceptedDuplicateEmail(row) == row.email # None

\* The constraints of the users table checked at commit: email is NOT NULL and
\* UNIQUE (the primary key is the id the handlers looked up).
UserRowAccepted(row) ==
    /\ row.email # None
    /\ \A r \in users : r.id # row.id => r.email # row.email

UserRequest(op, u, data) ==
    [op |-> op, caller |-> u, id |-> NULL, sub_id |-> NULL, flag |-> FALSE, data |-> data]

\* POST /api/users
create_user(u, user_data) ==
    LET db_user == User(u, user_data.email, user_data.name, user_data.nickname,
                        user_data.image_url)
    IN /\ req' = UserRequest("create_user", u, user_data)
       /\ IF UserById(u) # {}
          THEN /\ resp' = HTTPException(400, "User already exists")
               /\ users' = users
          ELSE IF ~UserRowAccepted(db_user)
          THEN /\ resp' = InternalServerError
               /\ users' = users
          ELSE /\ users' = users \cup {db_user}
               /\ resp' = Ok(<<db_user>>)
       /\ UNCHANGED <<tables, user_settings, nuggetVars, authVars, mergeVars, uploadVars>>

\* GET /api/users/me; current_user is the verified token payload.
get_current_user(u, current_user) ==
    LET user == User(u, DictGet(current_user.email, ""), DictGet(current_user.name, None),
                     DictGet(current_user.nickname, None), DictGet(current_user.picture, None))
    IN /\ req' = UserRequest("get_current_user", u, current_user)
       /\ IF UserById(u) # {}
          THEN /\ \E r \in UserById(u) : resp' = Ok(<<r>>)
               /\ users' = users
          ELSE IF ~UserRowAccepted(user)
          THEN /\ resp' = InternalServerError
               /\ users' = users
          ELSE /\ users' = users \cup {user}
               /\ resp' = Ok(<<user>>)
       /\ UNCHANGED <<tables, user_settings, nuggetVars, authVars, mergeVars, uploadVars>>

\* PUT /api/users/me: setattr for every field the body sets.
update_current_user(u, user_data) ==
    /\ req' = UserRequest("update_current_user", u, user_data)
    /\ IF UserById(u) = {}
       THEN /\ resp' = HTTPException(404, "User not found")
            /\ users' = users
       ELSE \E r \in UserById(u) :
               LET user == [f \in DOMAIN r |->
                               IF f \in DOMAIN user_data /\ user_data[f] # Absent
                               THEN user_data[f] ELSE r[f]]
               IN IF ~UserRowAccepted(user)
                  THEN /\ resp' = InternalServerError
                       /\ users' = users
                  ELSE /\ users' = (users \ {r}) \cup {user}
                       /\ resp' = Ok(<<user>>)
    /\ UNCHANGED <<tables, user_settings, nuggetVars, authVars, mergeVars, uploadVars>>

(***************************************************************************)
(* A request to an /api route: FastAPI resolves Depends(verify_jwt) first   *)
(* and calls the handler with the payload only if the dependency returned.  *)
(***************************************************************************)
\* The dependency of the request being handled returned a payload.
Verified == req.op = "verify_jwt" /\ resp.status = 200

\* current_user["sub"]
CurrentUser == resp.rows[1].sub

\* GET /health
health_check(client) ==
    /\ req' = Request("health_check", "", NULL, NULL, FALSE)
    /\ resp' = Ok(<<[status |-> "healthy", service |-> "base-app-api",
                     openai |-> IF client THEN "configured" ELSE "not configured",
                     s3 |-> IF s3_client THEN "configured" ELSE "not configured",
                     database |-> "connected"]>>)
    /\ UNCHANGED <<tables, others>>

(***************************************************************************)
(* Initial state: empty tables, nothing cached, no request handled yet.     *)
(***************************************************************************)
InitStore ==
    /\ habits = {}
    /\ sub_habits = {}
    /\ checks = {}
    /\ counts = {}
    /\ weight_updates = {}
    /\ active_days = {}
    /\ user_settings = {}
    /\ nugget = {}
    /\ inflight = [i \in Slots |-> Idle]
    /\ users = {}
    /\ s3_uploads = <<>>
    /\ jwks_cache = NoCache
    /\ provider_keys = {"k1"}
    /\ verifying = [i \in Slots |-> NotVerifying]
    /\ jwks_fetches = 0
    /\ req = Request("none", "ua", NULL, NULL, FALSE)
    /\ resp = Ok(<<>>)

\* Neither AWS_S3_BUCKET nor AWS_ACCESS_KEY_ID is set in the environment.
NoStorage ==
    /\ S3_BUCKET = None
    /\ s3_client = FALSE

Init ==
    /\ InitStore
    /\ NoStorage
    /\ merge_settings = NewSettings("ua")
    /\ merge_profile = EmptyProfile
    /\ merge_trace = <<>>

(***************************************************************************)
(* Writes: the create and delete endpoints of habits and their children.    *)
(***************************************************************************)
NextWrite ==
    \/ HasRoom(MaxWriteRows) /\ \E u \in Users : create_habit(u, "run")
    \/ HasRoom(MaxWriteRows) /\ \E u \in Users, id \in IdInputs : create_sub_habit(u, id, 0)
    \/ HasRoom(MaxWriteRows) /\ \E u \in Users, hid \in OptIdInputs, sid \in {NULL, 0, 1} : create_check(u, hid, sid, 1)
    \/ HasRoom(MaxWriteRows) /\ \E u \in Users, hid \in IdInputs : create_count(u, hid, 1, 1)
    \/ HasRoom(MaxWriteRows) /\ \E u \in Users, hid \in IdInputs : create_weight_update(u, hid, 1, 1)
    \/ \E u \in Users, id \in IdInputs : delete_habit(u, id, TRUE, 1)

SpecWrite == Init /\ [][NextWrite]_vars

(***************************************************************************)
(* By-id reads, updates and deletes of Habit, SubHabit, Check, ActiveDay.   *)
(***************************************************************************)
NextOwn ==
    \/ HasRoom(MaxOwnRows) /\ \E u \in Users : create_habit(u, "run")
    \/ HasRoom(MaxOwnRows) /\ \E u \in Users, id \in IdInputs : create_sub_habit(u, id, 0)
    \/ HasRoom(MaxOwnRows) /\ \E u \in Users : create_check(u, NULL, NULL, 1)
    \/ HasRoom(MaxOwnRows) /\ \E u \in Users : create_active_day(u, 1, FALSE)
    \/ \E u \in Users, id \in IdInputs : get_habit(u, id)
    \/ \E u \in Users, id \in IdInputs : update_habit(u, id, "read", UNSET)
    \/ \E u \in Users, id \in IdInputs : delete_habit(u, id, TRUE, 1)
    \/ \E u \in Users, id \in IdInputs : get_sub_habits(u, id)
    \/ \E u \in Users, id \in IdInputs : update_sub_habit(u, id, 1)
    \/ \E u \in Users, id \in IdInputs : delete_sub_habit(u, id)
    \/ \E u \in Users, id \in IdInputs : delete_check(u, id)
    \/ \E u \in Users, id \in IdInputs : update_active_day(u, id, TRUE, TRUE)

SpecOwn == Init /\ [][NextOwn]_vars

(***************************************************************************)
(* The habit endpoints alone: listing, soft and hard deletion, restoring.   *)
(***************************************************************************)
NextHabits ==
    \/ HasRoom(MaxHabitRows) /\ \E u \in Users : create_habit(u, "run")
    \/ \E u \in Users, skip \in SkipInputs, limit \in LimitInputs, incl \in BOOLEAN :
          get_habits(u, skip, limit, incl)
    \/ \E u \in Users, id \in IdInputs : get_habit(u, id)
    \/ \E u \in Users, id \in IdInputs, deleted_at \in {UNSET, NULL, 1} :
          update_habit(u, id, "unset", deleted_at)
    \/ \E u \in Users, id \in IdInputs, hard \in BOOLEAN : delete_habit(u, id, hard, 1)

SpecHabits == Init /\ [][NextHabits]_vars

(***************************************************************************)
(* The list endpoints and the settings read over rows of both users.        *)
(***************************************************************************)
ListRoom == RowCount + Cardinality(user_settings) < MaxListRows

NextList ==
    \/ ListRoom /\ \E u \in Users : create_habit(u, "run")
    \/ ListRoom /\ \E u \in Users, id \in IdInputs : create_sub_habit(u, id, 0)
    \/ ListRoom /\ \E u \in Users, d \in Dates : create_check(u, NULL, NULL, d)
    \/ ListRoom /\ \E u \in Users, hid \in IdInputs : create_count(u, hid, 1, 1)
    \/ ListRoom /\ \E u \in Users, hid \in IdInputs : create_weight_update(u, hid, 1, 1)
    \/ ListRoom /\ \E u \in Users : create_active_day(u, 1, FALSE)
    \/ \E u \in Users, id \in IdInputs : delete_habit(u, id, FALSE, 1)
    \/ \E u \in Users, skip \in SkipInputs, limit \in LimitInputs, incl \in BOOLEAN :
          get_habits(u, skip, limit, incl)
    \/ \E u \in Users, id \in IdInputs : get_sub_habits(u, id)
    \/ \E u \in Users, hid \in {NULL, 1}, skip \in SkipInputs, limit \in LimitInputs :
          get_checks(u, hid, NULL, NULL, NULL, skip, limit)
    \/ \E u \in Users, hid \in {NULL, 1}, skip \in SkipInputs, limit \in LimitInputs :
          get_counts(u, hid, NULL, NULL, skip, limit)
    \/ \E u \in Users, hid \in {NULL, 1}, skip \in SkipInputs, limit \in LimitInputs :
          get_weight_updates(u, hid, NULL, NULL, skip, limit)
    \/ \E u \in Users, skip \in SkipInputs, limit \in LimitInputs :
          get_active_days(u, NULL, NULL, skip, limit)
    \/ \E u \in Users : /\ (OwnedSettings(u) # {} \/ ListRoom)
                         /\ update_settings(u, Profile(u, None, None, None))
    \/ \E u \in Users : /\ (OwnedSettings(u) # {} \/ ListRoom)
                         /\ read_settings(u, EmptyProfile, TRUE, TRUE, EmptyProfile)

SpecList == Init /\ [][NextList]_vars

(***************************************************************************)
(* GET and POST /api/settings of one user, for every token and userinfo.    *)
(***************************************************************************)
\* Profile claims a token may carry, and what the userinfo endpoint may answer.
TokenClaims ==
    {Profile(n, k, e, p) : n \in {None, "tn"}, k \in {None, "tk"}, e \in {None, "te"}, p \in {None, "tp"}}
Userinfos ==
    {EmptyProfile, Profile("in", "ik", "ie", "ip"), Profile(None, "ik", None, None)}
SettingsIns ==
    {Profile(n, k, e, p) : n \in {None, "", "sn"}, k \in {None, "sk"}, e \in {None, "se"}, p \in {None, "sp"}}

NextSettings ==
    \/ \E claims \in TokenClaims, bearer \in BOOLEAN, domain \in BOOLEAN :
          \* the userinfo endpoint answers only when it is asked
          \E fetched \in IF UserinfoRequested(SettingsOrNew("ua"), bearer, domain)
                          THEN Userinfos ELSE {EmptyProfile} :
              read_settings("ua", claims, bearer, domain, fetched)
    \/ \E data \in SettingsIns : update_settings("ua", data)

SpecSettings == Init /\ [][NextSettings]_vars

(***************************************************************************)
(* _merge_from_profile called repeatedly on every object and dictionary.    *)
(***************************************************************************)
MergeSettingsInputs ==
    {[user_id |-> "ua", name |-> n, nickname |-> k, email |-> e, image_url |-> p] :
        n \in {None, "", "sn"}, k \in {None, "", "sk"}, e \in {None, "", "se"}, p \in {None, "", "sp"}}
MergeProfileInputs ==
    {Profile(n, k, e, p) : n \in {None, "", "pn"}, k \in {None, "", "pk"},
                           e \in {None, "", "pe"}, p \in {None, "", "pp"}}

InitMerge ==
    /\ InitStore
    /\ NoStorage
    /\ merge_settings \in MergeSettingsInputs
    /\ merge_profile \in MergeProfileInputs
    /\ merge_trace = <<>>

NextMerge == merge_from_profile

SpecMerge == InitMerge /\ [][NextMerge]_vars

(***************************************************************************)
(* Token verification against a key set that the provider may rotate.       *)
(***************************************************************************)
NextAuth ==
    \/ \E token \in Tokens, fetch_ok \in BOOLEAN : verify_jwt(token, fetch_ok)
    \/ \E keys \in SUBSET Kids : rotate_keys(keys)
    \/ cache_clear

SpecAuth == Init /\ [][NextAuth]_vars

(***************************************************************************)
(* Concurrent nugget requests.                                              *)
(***************************************************************************)
NextNugget ==
    \/ \E i \in Slots, kind \in {"read_nugget", "regenerate_nugget"} : nugget_request(i, kind)
    \/ \E i \in Slots : read_nugget_query(i)
    \/ \E i \in Slots, client \in BOOLEAN, completion \in Completions :
          read_nugget_generate(i, client, completion)
    \/ \E i \in Slots : read_nugget_insert(i)
    \/ \E i \in Slots, client \in BOOLEAN, completion \in Completions :
          regenerate_nugget_generate(i, client, completion)
    \/ \E i \in Slots : regenerate_nugget_query(i)
    \/ \E i \in Slots : regenerate_nugget_write(i)

SpecNugget == Init /\ [][NextNugget]_vars

(***************************************************************************)
(* Uploads under every storage configuration.                               *)
(***************************************************************************)
\* Files with and without a name, of allowed and other declared types, up to and
\* over the size limit.
UploadFiles ==
    {UploadFile(n, t, b, k) :
        n \in {"me.png", None},
        t \in {"image/png", "image/jpeg", "IMAGE/PNG", "image/gif", None},
        b \in {1, MAX_UPLOAD_SIZE, MAX_UPLOAD_SIZE + 1},
        k \in BOOLEAN}

\* AWS_S3_BUCKET and AWS_ACCESS_KEY_ID are set or unset independently.
InitUpload ==
    /\ InitStore
    /\ S3_BUCKET \in {None, "pics"}
    /\ s3_client \in BOOLEAN
    /\ merge_settings = NewSettings("ua")
    /\ merge_profile = EmptyProfile
    /\ merge_trace = <<>>

NextUpload ==
    /\ Len(s3_uploads) < MaxUploads
    /\ \E file \in UploadFiles, uuid \in {"a1", "b2"}, outcome \in UploadOutcomes :
          upload_profile_picture("ua", file, uuid, outcome)

SpecUpload == InitUpload /\ [][NextUpload]_vars

(***************************************************************************)
(* The event-log listings with date bounds, over rows of several dates.     *)
(***************************************************************************)
\* Rows the tables hold together in the date-range runs.
MaxRangeRows == 2

NextRange ==
    \/ HasRoom(MaxRangeRows) /\ create_habit("ua", "run")
    \/ HasRoom(MaxRangeRows) /\ \E u \in Users, d \in Dates : create_check(u, NULL, NULL, d)
    \/ HasRoom(MaxRangeRows) /\ \E d \in Dates : create_count("ua", 1, 1, d)
    \/ HasRoom(MaxRangeRows) /\ \E d \in Dates : create_weight_update("ua", 1, 1, d)
    \/ HasRoom(MaxRangeRows) /\ \E d \in Dates : create_active_day("ua", d, FALSE)
    \/ \E sd \in OptDates, ed \in OptDates, limit \in LimitInputs :
          get_checks("ua", NULL, NULL, sd, ed, 0, limit)
    \/ \E hid \in {NULL, 1}, sd \in OptDates, ed \in OptDates :
          get_counts("ua", hid, sd, ed, 0, DefaultLimit)
    \/ \E sd \in OptDates, ed \in OptDates :
          get_weight_updates("ua", NULL, sd, ed, 0, DefaultLimit)
    \/ \E sd \in OptDates, ed \in OptDates :
          get_active_days("ua", sd, ed, 0, DefaultLimit)

SpecRange == Init /\ [][NextRange]_vars

(***************************************************************************)
(* Concurrent token verifications against a key set the provider rotates.   *)
(***************************************************************************)
\* Tokens signed with the key their header names, and one without a readable header.
SignedTokens ==
    {Token(TRUE, k, k, TRUE, TRUE, FALSE, "ua") : k \in Kids}
        \cup {Token(FALSE, "k1", "k1", TRUE, TRUE, FALSE, "ua")}

NextJwks ==
    \/ \E i \in Slots, token \in SignedTokens : verify_jwt_begin(i, token)
    \/ \E i \in Slots, fetch_ok \in BOOLEAN : get_jwks_request(i, fetch_ok)
    \/ \E i \in Slots : get_jwks_return(i)
    \/ \E keys \in {{"k1"}, {"k1", "k2"}} : rotate_keys(keys)
    \/ cache_clear

SpecJwks == Init /\ [][NextJwks]_vars

(***************************************************************************)
(* The user endpoints called by two subjects with every shape of token.     *)
(***************************************************************************)
\* Token payloads with the email claim absent or set and the name set or absent;
\* request bodies that set the email and the name or leave them out.
NextUsers ==
    \/ \E u \in Users, e \in {"a@x", "b@x"}, n \in {None, "nn"} :
          create_user(u, [email |-> e, name |-> n, nickname |-> None, image_url |-> None])
    \/ \E u \in Users, e \in {Absent, "a@x", "b@x"}, n \in {Absent, "nn"} :
          get_current_user(u, Profile(n, Absent, e, Absent))
    \/ \E u \in Users, e \in {Absent, None, "a@x", "b@x"}, n \in {Absent, "nn"} :
          update_current_user(u, [email |-> e, name |-> n, nickname |-> Absent,
                                   image_url |-> Absent])

SpecUsers == Init /\ [][NextUsers]_vars

(***************************************************************************)
(* Requests to the /api routes with genuine, forged and expired tokens, and *)
(* to /health.                                                              *)
(***************************************************************************)
\* Rows the tables hold together in these runs.
MaxApiRows == 2

ApiRoom == RowCount + Cardinality(user_settings) + Cardinality(users) < MaxApiRows

NextApi ==
    \/ \E s \in {"k1", "forged"}, e \in BOOLEAN, u \in Users, fetch_ok \in BOOLEAN :
          verify_jwt(Token(TRUE, "k1", s, TRUE, TRUE, e, u), fetch_ok)
    \/ \E client \in BOOLEAN : health_check(client)
    \/ Verified /\ ApiRoom /\ create_habit(CurrentUser, "run")
    \/ Verified /\ ApiRoom /\ \E hid \in OptIdInputs : create_check(CurrentUser, hid, NULL, 1)
    \/ Verified /\ ApiRoom /\ create_active_day(CurrentUser, 1, FALSE)
    \/ Verified /\ \E id \in IdInputs : update_habit(CurrentUser, id, "read", UNSET)
    \/ Verified /\ \E id \in IdInputs, hard \in BOOLEAN : delete_habit(CurrentUser, id, hard, 1)
    \/ Verified /\ \E id \in IdInputs : delete_check(CurrentUser, id)
    \/ Verified /\ get_habits(CurrentUser, 0, DefaultLimit, TRUE)
    \/ Verified /\ get_checks(CurrentUser, NULL, NULL, NULL, NULL, 0, DefaultLimit)
    \/ Verified /\ (OwnedSettings(CurrentUser) # {} \/ ApiRoom)
                /\ update_settings(CurrentUser, Profile("nn", None, None, None))
    \/ Verified /\ (UserById(CurrentUser) # {} \/ ApiRoom)
                /\ get_current_user(CurrentUser, Profile(Absent, Absent, CurrentUser, Absent))

SpecApi == Init /\ [][NextApi]_vars

(***************************************************************************)
(* Soft deletion of a habit that has children, and the children's listings  *)
(***************************************************************************)
MaxSoftRows == 3

NextSoft ==
    \/ HasRoom(MaxSoftRows) /\ \E u \in Users : create_habit(u, "run")
    \/ HasRoom(MaxSoftRows) /\ create_sub_habit("ua", 1, 0)
    \/ HasRoom(MaxSoftRows) /\ \E sid \in {NULL, 1} : create_check("ua", 1, sid, 1)
    \/ HasRoom(MaxSoftRows) /\ create_count("ua", 1, 1, 1)
    \/ HasRoom(MaxSoftRows) /\ create_weight_update("ua", 1, 1, 1)
    \/ \E u \in Users, id \in {1, 2}, hard_delete \in BOOLEAN : delete_habit(u, id, hard_delete, 1)
    \/ \E u \in Users : get_sub_habits(u, 1)
    \/ \E hid \in {NULL, 1} : get_checks("ua", hid, NULL, NULL, NULL, 0, DefaultLimit)
    \/ \E hid \in {NULL, 1} : get_counts("ua", hid, NULL, NULL, 0, DefaultLimit)
    \/ \E hid \in {NULL, 1} : get_weight_updates("ua", hid, NULL, NULL, 0, DefaultLimit)

SpecSoft == Init /\ [][NextSoft]_vars

(***************************************************************************)
(* GET /api/settings with a token and a userinfo answer that each carry     *)
(* some of the profile fields.                                              *)
(***************************************************************************)
NextPrecedence ==
    \/ \E claims \in {EmptyProfile, Profile(None, "tk", None, None),
                      Profile("tn", None, "te", None), Profile("tn", "tk", "te", "tp")},
          bearer \in BOOLEAN :
          \E fetched \in IF UserinfoRequested(SettingsOrNew("ua"), bearer, TRUE)
                          THEN Userinfos ELSE {EmptyProfile} :
              read_settings("ua", claims, bearer, TRUE, fetched)
    \/ \E data \in {Profile("sn", None, None, None), Profile("", None, "se", None),
                    Profile(None, "sk", None, "sp"), Profile("", "", "", "")} :
          update_settings("ua", data)

SpecPrecedence == Init /\ [][NextPrecedence]_vars

(***************************************************************************)
(* The four update handlers on rows of two users.                           *)
(***************************************************************************)
MaxUpdateRows == 2

UpdateRoom == RowCount + Cardinality(user_settings) + Cardinality(users) < MaxUpdateRows
HabitUpdateNames == {"unset", "read"}
HabitUpdateDeletedAts == {UNSET, 1}
SubHabitUpdateOrders == {UNSET, 1}
UserUpdates ==
    {[email |-> e, name |-> n, nickname |-> Absent, image_url |-> Absent] :
        e \in {Absent, "a@x"}, n \in {Absent, "nn"}}
SettingsUpdates == {Profile(n, None, e, None) : n \in {None, "sn"}, e \in {None, "se"}}

NextUpdate ==
    \/ UpdateRoom /\ \E u \in Users : create_habit(u, "run")
    \/ UpdateRoom /\ \E u \in Users : create_sub_habit(u, 1, 0)
    \/ UpdateRoom /\ \E u \in Users : get_current_user(u, Profile(Absent, Absent, u, Absent))
    \/ \E u \in Users, id \in {1, 2}, name \in HabitUpdateNames,
          deleted_at \in HabitUpdateDeletedAts : update_habit(u, id, name, deleted_at)
    \/ \E u \in Users, id \in {1, 2}, order_index \in SubHabitUpdateOrders :
          update_sub_habit(u, id, order_index)
    \/ \E u \in Users, user_data \in UserUpdates : update_current_user(u, user_data)
    \/ \E u \in Users, data \in SettingsUpdates :
          (OwnedSettings(u) # {} \/ UpdateRoom) /\ update_settings(u, data)

SpecUpdate == Init /\ [][NextUpdate]_vars

(***************************************************************************)
(* Counts and weight updates of a habit among every write of its owner and  *)
(* of another user.                                                         *)
(***************************************************************************)
MaxLogRows == 3

NextLog ==
    \/ HasRoom(MaxLogRows) /\ \E u \in Users : create_habit(u, "run")
    \/ HasRoom(MaxLogRows) /\ \E u \in Users, value \in {-1, 1} : create_count(u, 1, value, 1)
    \/ HasRoom(MaxLogRows) /\ \E u \in Users, weight \in {-1, 1} :
          create_weight_update(u, 1, weight, 1)
    \/ HasRoom(MaxLogRows) /\ create_sub_habit("ua", 1, 0)
    \/ HasRoom(MaxLogRows) /\ create_check("ua", 1, NULL, 1)
    \/ \E u \in Users, deleted_at \in {UNSET, NULL, 1} : update_habit(u, 1, "read", deleted_at)
    \/ \E u \in Users, id \in {1, 2}, hard_delete \in BOOLEAN : delete_habit(u, id, hard_delete, 1)
    \/ \E u \in Users : update_sub_habit(u, 1, 1)
    \/ \E u \in Users : delete_sub_habit(u, 1)
    \/ \E u \in Users : delete_check(u, 1)
    \/ \E u \in Users : get_counts(u, NULL, NULL, NULL, 0, DefaultLimit)
    \/ \E u \in Users : get_weight_updates(u, NULL, NULL, NULL, 0, DefaultLimit)

SpecLog == Init /\ [][NextLog]_vars

(***************************************************************************)
(* Properties                                                               *)
(***************************************************************************)
ProfileFields == {"name", "nickname", "email", "image_url"}

\* The operations that address one Habit, SubHabit, Check or ActiveDay by its id.
ByIdOps ==
    {"get_habit", "update_habit", "delete_habit", "update_sub_habit", "delete_sub_habit",
     "delete_check", "update_active_day"}

\* The table a by-id operation addresses (in the state before the request).
TargetTable(op) ==
    CASE op \in {"get_habit", "update_habit", "delete_habit"} -> habits
      [] op \in {"update_sub_habit", "delete_sub_habit"} -> sub_habits
      [] op = "delete_check" -> checks
      [] op = "update_active_day" -> active_days

\* What each by-id operation answers for an id that no row has.
NotFoundDetail(op) ==
    CASE op \in {"get_habit", "update_habit", "delete_habit"} -> "Habit not found"
      [] op \in {"update_sub_habit", "delete_sub_habit"} -> "Sub-habit not found"
      [] op = "delete_check" -> "Check not found"
      [] op = "update_active_day" -> "Active day not found"

\* C1: a get, update or delete by id whose target row belongs to another user is
\* answered exactly as one whose id no row has (404 and the entity's not-found
\* detail), and no stored row changes.
C1_ForeignRowLooksMissing ==
    [][(/\ req'.op \in ByIdOps
        /\ \A r \in TargetTable(req'.op) : r.id = req'.id => r.user_id # req'.caller)
          => /\ resp' = HTTPException(404, NotFoundDetail(req'.op))
             /\ UNCHANGED <<tables, user_settings>>]_vars

\* A by-id request was refused with 404 although a row with that id is stored: it
\* belongs to another user.
C1_Witness ==
    /\ req.op \in ByIdOps
    /\ resp.status = 404
    /\ \E r \in TargetTable(req.op) : r.id = req.id /\ r.user_id # req.caller

ListOps ==
    {"get_habits", "get_sub_habits", "get_checks", "get_counts", "get_weight_updates",
     "get_active_days"}

\* C2: every row a list operation returns is owned by the caller, and the settings
\* read returns the caller's own stored profile (each user stores their own id as
\* name, so a body carrying another user's name would show).
C2_ListsOnlyOwnRows ==
    /\ req.op \in ListOps => \A i \in 1..Len(resp.rows) : resp.rows[i].user_id = req.caller
    /\ req.op = "read_settings" =>
          /\ resp.rows[1].name \in {"", req.caller}
          /\ \E r \in user_settings : r.user_id = req.caller /\ resp.rows = <<SettingsBody(r)>>

\* A listing returned a row of the caller while the same table holds a row of the
\* other user.
C2_Witness ==
    /\ req.op = "get_checks"
    /\ Len(resp.rows) > 0
    /\ \E c \in checks : c.user_id # req.caller

CreateChildOps == {"create_sub_habit", "create_check", "create_count", "create_weight_update"}

\* Every parent id the request names is the id of a row the caller owns.
NamedParentsOwned(r) ==
    /\ r.id # NULL => \E h \in habits : h.id = r.id /\ h.user_id = r.caller
    /\ r.sub_id # NULL => \E s \in sub_habits : s.id = r.sub_id /\ s.user_id = r.caller

\* C3: a create of a sub-habit, check, count or weight update that names a parent id
\* which is not the id of a row owned by the caller fails with 404 and writes no row.
C3_CreateNeedsOwnedParents ==
    [][(req'.op \in CreateChildOps /\ ~NamedParentsOwned(req'))
          => resp'.status = 404 /\ UNCHANGED tables]_vars

\* The answer verify_jwt gives for every failure.
CouldNotValidate == HTTPException(401, "Could not validate credentials")

\* The key set _get_jwks hands to the lookup: the cached one, else the fetched one.
KeySetUsed == IF jwks_cache.cached THEN jwks_cache.keys ELSE provider_keys

\* C4: a token whose kid is not in the key set, whose signature does not verify
\* against the located key, whose issuer or audience is wrong, or whose verification
\* fails for any other reason (an unreadable header, a key-set fetch that raises, an
\* expired token) gets exactly 401 "Could not validate credentials"; verify_jwt gives
\* no other error.
C4_UniformRejection ==
    [][req'.op = "verify_jwt" =>
          \A fetch_ok \in BOOLEAN :
              verify_jwt(req'.token, fetch_ok) =>
                  /\ resp'.status = 200 \/ resp' = CouldNotValidate
                  /\ (\/ ~req'.token.header_ok
                      \/ req'.token.kid \notin KeySetUsed
                      \/ req'.token.signer # req'.token.kid
                      \/ ~req'.token.iss_ok
                      \/ ~req'.token.aud_ok
                      \/ req'.token.expired
                      \/ (~jwks_cache.cached /\ ~fetch_ok)) => resp' = CouldNotValidate]_vars

\* A well-formed, well-signed token whose kid the cached key set does not hold was
\* rejected with the common answer.
C4_Witness ==
    /\ req.op = "verify_jwt"
    /\ req.token = Token(TRUE, "k2", "k2", TRUE, TRUE, FALSE, "ua")
    /\ jwks_cache = [cached |-> TRUE, keys |-> {"k1"}]
    /\ resp = CouldNotValidate

\* C5: a soft delete of an owned habit leaves it stored with a deletion timestamp;
\* every get_habits of its owner omits a habit with a deletion timestamp unless
\* include_deleted is set, and with include_deleted the unpaginated listing holds it;
\* such a habit stays as it is under every request other than an update or delete of
\* it by its owner.
C5_SoftDeleteHidesHabit ==
    [][/\ (req'.op = "delete_habit" /\ ~req'.flag /\ resp'.status = 200) =>
              \E h \in habits' : h.id = req'.id /\ h.user_id = req'.caller /\ h.deleted_at # NULL
       /\ req'.op = "get_habits" =>
              \A h \in habits : (h.user_id = req'.caller /\ h.deleted_at # NULL) =>
                  IF req'.flag
                  THEN (req'.skip = 0 /\ req'.limit = DefaultLimit)
                           => \E i \in 1..Len(resp'.rows) : resp'.rows[i] = h
                  ELSE \A i \in 1..Len(resp'.rows) : resp'.rows[i] # h
       /\ \A h \in habits :
              (/\ h.deleted_at # NULL
               /\ ~(/\ req'.op \in {"update_habit", "delete_habit"}
                    /\ req'.id = h.id
                    /\ req'.caller = h.user_id)) => h \in habits']_vars

\* A listing with include_deleted showed a soft-deleted habit next to a live one.
C5_Witness ==
    /\ req.op = "get_habits"
    /\ req.flag
    /\ \E i, j \in 1..Len(resp.rows) :
          resp.rows[i].deleted_at # NULL /\ resp.rows[j].deleted_at = NULL

\* Sub-habits of habit hid, in the state before the request.
SubHabitIdsOf(hid) == {s.id : s \in {x \in sub_habits : x.parent_habit_id = hid}}

\* C6: after a hard delete of an owned habit no listing and no get by id finds it, no
\* sub-habit, check, count or weight update that referenced it (or, for a check, one
\* of its sub-habits) is stored, and every other row is stored unchanged.
C6_HardDeleteCascades ==
    [][(req'.op = "delete_habit" /\ req'.flag /\ resp'.status = 200) =>
          /\ \A u \in Users, incl \in BOOLEAN :
                /\ \A h \in HabitsQuery(u, incl)' : h.id # req'.id
                /\ \A id \in IdInputs : id = req'.id => OwnedHabit(u, id)' = {}
          /\ habits' = {h \in habits : h.id # req'.id}
          /\ sub_habits' = {s \in sub_habits : s.parent_habit_id # req'.id}
          /\ checks' = {c \in checks : /\ c.habit_id # req'.id
                                       /\ c.sub_habit_id \notin SubHabitIdsOf(req'.id)}
          /\ counts' = {c \in counts : c.habit_id # req'.id}
          /\ weight_updates' = {w \in weight_updates : w.habit_id # req'.id}
          /\ UNCHANGED <<active_days, user_settings>>]_vars

\* A habit was hard-deleted while a check on another habit of the same user stays
\* stored.
C6_Witness ==
    /\ req.op = "delete_habit"
    /\ req.flag
    /\ resp.status = 200
    /\ \E c \in checks, h \in habits :
          c.habit_id = h.id /\ c.user_id = req.caller /\ h.id # req.id

\* Every field of before that is non-empty has the same value in after.
Preserved(before, after) == \A f \in ProfileFields : ~Falsy(before[f]) => after[f] = before[f]

\* C7: on a GET /api/settings the merge of the token claims leaves every non-empty
\* field of the settings row as it is, and the GET as a whole leaves every non-empty
\* stored field as it is and returns it, whatever the token claims and the userinfo
\* answer carry.
C7_MergeKeepsNonEmpty ==
    [][req'.op = "read_settings" =>
          LET settings == SettingsOrNew(req'.caller)
          IN /\ Preserved(settings, MergeFromProfile(settings, req'.claims).settings)
             /\ \E r \in user_settings' :
                   /\ r.user_id = req'.caller
                   /\ Preserved(settings, r)
                   /\ resp'.rows = <<SettingsBody(r)>>]_vars

\* A GET whose token carries every claim returned the name the user had posted and
\* filled the email from the token.
C7_Witness ==
    /\ req.op = "read_settings"
    /\ req.claims = Profile("tn", "tk", "te", "tp")
    /\ resp.rows[1].name = "sn"
    /\ resp.rows[1].email = "te"

\* C8: a second _merge_from_profile with the same dictionary leaves the fields the
\* first one left and returns False.
C8_MergeIdempotent ==
    Len(merge_trace) >= 2 =>
        /\ merge_trace[2].settings = merge_trace[1].settings
        /\ ~merge_trace[2].updated

\* Two merges ran and the first one had filled a field.
C8_Witness ==
    /\ Len(merge_trace) >= 2
    /\ merge_trace[1].updated
    /\ merge_trace[1].settings.nickname = "pn"

\* C9: GET /api/settings sends a userinfo request only if the row, after the token
\* claims are merged into it, still has an empty profile field.
C9_UserinfoOnlyIfClaimsLeaveGap ==
    [][(req'.op = "read_settings" /\ req'.flag) =>
          ~AllProfileFields(MergeFromProfile(SettingsOrNew(req'.caller), req'.claims).settings)]_vars

\* C10: the nugget table never holds more than one row.
C10_AtMostOneNugget == Cardinality(nugget) <= 1

\* C11: a GET /api/nugget answered right after a successful answer of GET
\* /api/nugget or of POST /api/nugget/regenerate carries the text of that answer:
\* a stored text is returned unchanged until a regenerate succeeds, and after a
\* regenerate the text it returned.
C11_NuggetStableUntilRegenerate ==
    [][(/\ req.op \in {"read_nugget", "regenerate_nugget"}
        /\ resp.status = 200
        /\ req'.op = "read_nugget"
        /\ resp'.status = 200)
          => resp'.rows = resp.rows]_vars

\* The declared content type, compared case-insensitively, is not on the allow-list.
DisallowedType(file) ==
    Lower(IF Falsy(file.content_type) THEN "" ELSE file.content_type)
        \notin {"image/png", "image/jpeg", "image/jpg"}

\* The stream holds more bytes than the maximum.
Oversized(file) == file.bytes > MAX_UPLOAD_SIZE

\* C12 as stated: an upload with a disallowed content type is answered with a
\* 4xx status, an oversized one with 413, and neither reaches upload_fileobj.
C12_BadUploadRejected ==
    [][req'.op = "upload_profile_picture" =>
          /\ DisallowedType(req'.file) =>
                resp'.status \in 400..499 /\ s3_uploads' = s3_uploads
          /\ Oversized(req'.file) =>
                resp'.status = 413 /\ s3_uploads' = s3_uploads]_vars

\* C12, amended: with a bucket configured an upload with a disallowed content type
\* is answered 400 and an oversized one of an allowed type 413; with no bucket both
\* are answered 500; in every one of these cases upload_fileobj is not called.
C12_BadUploadRejectedWhenConfigured ==
    [][(/\ req'.op = "upload_profile_picture"
        /\ DisallowedType(req'.file) \/ Oversized(req'.file))
          => /\ s3_uploads' = s3_uploads
             /\ resp'.status = IF Falsy(S3_BUCKET) THEN 500
                               ELSE IF DisallowedType(req'.file) THEN 400 ELSE 413]_vars

\* After one upload went through, an oversized PNG was answered 413.
C12_Witness ==
    /\ req.op = "upload_profile_picture"
    /\ Oversized(req.file) /\ ~DisallowedType(req.file)
    /\ S3_BUCKET = "pics" /\ s3_client
    /\ Len(s3_uploads) = 1
    /\ resp = HTTPException(413, "File too large")

\* C13: an upload that passes validation while the bucket name or the storage client
\* handle is absent is answered 500 with the "not configured" detail, never with
\* the "Upload failed ..." detail of a transport failure.
C13_MissingStorageReportedAsSuch ==
    [][(/\ req'.op = "upload_profile_picture"
        /\ Falsy(S3_BUCKET) \/ ~s3_client
        /\ ~DisallowedType(req'.file) /\ ~Oversized(req'.file))
          => resp' = HTTPException(500, "S3 bucket not configured")]_vars

\* The listings of the event logs, the table each reads and its timestamp column.
RangeOps == {"get_checks", "get_counts", "get_weight_updates", "get_active_days"}
LogTable(op) ==
    CASE op = "get_checks" -> checks
      [] op = "get_counts" -> counts
      [] op = "get_weight_updates" -> weight_updates
      [] op = "get_active_days" -> active_days
TimeColumn(op) ==
    CASE op = "get_checks" -> "check_date"
      [] op = "get_counts" -> "count_date"
      [] op = "get_weight_updates" -> "update_date"
      [] op = "get_active_days" -> "date"

\* The caller's rows that match the parent filters of request r and whose timestamp
\* lies in the closed interval the request gives.
RowsInRange(r) ==
    {row \in LogTable(r.op) :
        /\ row.user_id = r.caller
        /\ Truthy(r.id) => row.habit_id = r.id
        /\ Truthy(r.sub_id) => row.sub_habit_id = r.sub_id
        /\ r.start_date # NULL => r.start_date <= row[TimeColumn(r.op)]
        /\ r.end_date # NULL => row[TimeColumn(r.op)] <= r.end_date}

\* C14: a listing of checks, counts, weight updates or active days returns only
\* rows of the caller inside the closed interval [start_date, end_date], each bound
\* applied only when given, and all of them when the page is not cut short.
C14_DateRangeClosedInterval ==
    req.op \in RangeOps =>
        /\ SeqRange(resp.rows) \subseteq RowsInRange(req)
        /\ req.skip = 0 => Len(resp.rows) = Min(req.limit, Cardinality(RowsInRange(req)))

\* A listing bounded on both sides returned the row on the bounds and left out an
\* earlier row of the caller.
C14_Witness ==
    /\ req.op = "get_checks"
    /\ req.start_date = 2 /\ req.end_date = 2
    /\ Len(resp.rows) = 1
    /\ resp.rows[1].check_date = 2
    /\ \E c \in checks : c.user_id = req.caller /\ c.check_date < req.start_date

\* C15: a list request repeated on the same stored rows returns the same sequence;
\* event-log listings come newest first and sub-habit listings by ascending order
\* index; the page after a one-row page does not repeat that row.
C15_ListOrderDeterministic ==
    [][/\ (req.op \in ListOps /\ req' = req) => resp' = resp
       /\ (req'.op \in RangeOps /\ resp'.status = 200) =>
             \A i, j \in 1..Len(resp'.rows) :
                i < j => resp'.rows[i][TimeColumn(req'.op)] >= resp'.rows[j][TimeColumn(req'.op)]
       /\ (req'.op = "get_sub_habits" /\ resp'.status = 200) =>
             \A i, j \in 1..Len(resp'.rows) :
                i < j => resp'.rows[i].order_index <= resp'.rows[j].order_index
       /\ (/\ req.op \in RangeOps \cup {"get_habits"}
           /\ req.skip = 0 /\ req.limit = 1
           /\ req' = [req EXCEPT !.skip = 1]
           /\ Len(resp.rows) = 1 /\ Len(resp'.rows) = 1) => resp'.rows # resp.rows]_vars

\* C16 as stated: between two invalidations of the cache the key set is obtained
\* from the identity provider at most once.
C16_FetchedAtMostOnce == jwks_fetches <= 1

\* C16, amended: while the cache holds a key set, it is replaced by nothing but an
\* explicit invalidation, and a verification that starts then sends no request to
\* the provider and decides with the cached set, so a token whose key id is not in
\* it is rejected whatever the provider publishes by now.
C16_CachedKeySetServesLaterCalls ==
    [][jwks_cache.cached =>
          /\ jwks_cache' \in {jwks_cache, NoCache}
          /\ req'.op = "verify_jwt" =>
                \A i \in Slots :
                   verify_jwt_begin(i, req'.token) =>
                      /\ verifying' = verifying
                      /\ ~req'.flag
                      /\ jwks_fetches' = jwks_fetches
                      /\ req'.token.kid \notin jwks_cache.keys => resp' = CouldNotValidate]_vars

\* With {k1} cached and k2 published since, a token signed with k2 was rejected
\* without a request to the provider.
C16_Witness ==
    /\ jwks_cache = [cached |-> TRUE, keys |-> {"k1"}]
    /\ provider_keys = {"k1", "k2"}
    /\ req.op = "verify_jwt" /\ ~req.flag
    /\ req.token.header_ok /\ req.token.kid = "k2" /\ req.token.signer = "k2"
    /\ resp = CouldNotValidate
    /\ jwks_fetches = 1

\* C17: GET /api/users/me by a caller without a User row answers 200 with a new row
\* whose id is the caller's subject id and adds exactly that row, whatever the token
\* claims and the rows of other users; by a caller with a row it answers that row
\* and adds nothing.
C17_FirstReadCreatesUser ==
    [][req'.op = "get_current_user" =>
          IF \E r \in users : r.id = req'.caller
          THEN /\ users' = users
               /\ \E r \in users : r.id = req'.caller /\ resp' = Ok(<<r>>)
          ELSE /\ resp'.status = 200
               /\ Len(resp'.rows) = 1
               /\ resp'.rows[1].id = req'.caller
               /\ users' = users \cup {resp'.rows[1]}]_vars

\* Everything the handlers store.
storage == <<tables, user_settings, users, nugget, s3_uploads>>

\* The token names a key of the set, is signed with it, is not expired and carries
\* the configured audience and issuer.
GenuineToken(token, keys) ==
    /\ token.header_ok
    /\ token.kid \in keys /\ token.signer = token.kid
    /\ ~token.expired /\ token.aud_ok /\ token.iss_ok

\* C18: a request whose token fails verification is answered 401 "Could not validate
\* credentials" and changes no stored row; a handler of an /api route answers, and
\* storage changes, only right after the verification of a genuine token and on
\* behalf of its subject; /health answers 200 with no verification and stores nothing.
C18_HandlerOnlyAfterVerification ==
    [][/\ (req'.op = "verify_jwt" /\ ~GenuineToken(req'.token, KeySetUsed)) =>
             resp' = CouldNotValidate /\ UNCHANGED storage
       /\ (req'.op \notin {"verify_jwt", "health_check"} \/ ~UNCHANGED storage) =>
             /\ req.op = "verify_jwt"
             /\ jwks_cache.cached /\ GenuineToken(req.token, jwks_cache.keys)
             /\ req'.caller = req.token.sub
       /\ req'.op = "health_check" => resp'.status = 200 /\ UNCHANGED storage]_vars

\* A forged token was rejected while the tables hold rows, and nothing happened
\* to them.
C18_Witness ==
    /\ req.op = "verify_jwt"
    /\ req.token.signer = "forged"
    /\ resp = CouldNotValidate
    /\ Cardinality(habits) = 1 /\ Cardinality(checks) = 1

\* C19: a habit with a deletion timestamp is returned neither by get_habit nor by
\* get_habits without include_deleted; get_habits with include_deleted returns it.
C19_SoftDeletedOnlyOnRequest ==
    [][\A h \in habits :
          (h.deleted_at # NULL /\ h.user_id = req'.caller) =>
             /\ req'.op = "get_habit" => \A i \in 1..Len(resp'.rows) : resp'.rows[i] # h
             /\ (req'.op = "get_habits" /\ ~req'.flag) =>
                   \A i \in 1..Len(resp'.rows) : resp'.rows[i] # h
             /\ (req'.op = "get_habits" /\ req'.flag /\ req'.skip = 0
                 /\ req'.limit = DefaultLimit) =>
                   \E i \in 1..Len(resp'.rows) : resp'.rows[i] = h]_vars

\* The caller's habits that are soft-deleted.
SoftDeletedOf(u) == {h.id : h \in {x \in habits : x.user_id = u /\ x.deleted_at # NULL}}

FirstPresent(candidates, old) ==
    IF \E i \in 1..Len(candidates) : ~Falsy(candidates[i])
    THEN candidates[CHOOSE i \in 1..Len(candidates) :
                       /\ ~Falsy(candidates[i])
                       /\ \A j \in 1..(i - 1) : Falsy(candidates[j])]
    ELSE old

\* C21: one call of _merge_from_profile gives an empty name the profile's name, or
\* else the profile's nickname; an empty nickname the profile's nickname, or else the
\* profile's name; an empty email or image URL the profile's email or picture only;
\* and it returns True exactly when a field of the settings object changed value.
C21_MergeFallbackChain ==
    [][merge_trace' # merge_trace =>
          LET before == merge_settings
              after == merge_settings'
              profile == merge_profile
              flag == merge_trace'[Len(merge_trace')].updated
          IN /\ Falsy(before.name) =>
                   after.name = FirstPresent(<<profile.name, profile.nickname>>, before.name)
             /\ Falsy(before.nickname) =>
                   after.nickname = FirstPresent(<<profile.nickname, profile.name>>,
                                                 before.nickname)
             /\ Falsy(before.email) =>
                   after.email = FirstPresent(<<profile.email>>, before.email)
             /\ Falsy(before.image_url) =>
                   after.image_url = FirstPresent(<<profile.picture>>, before.image_url)
             /\ flag <=> (after # before)]_vars

\* A merge gave the name the profile's nickname, the profile having no name, and left
\* the email empty although the profile has a picture.
C21_Witness ==
    /\ Len(merge_trace) >= 1
    /\ Falsy(merge_profile.name)
    /\ merge_profile.nickname = "pk"
    /\ merge_trace[1].settings.name = "pk"
    /\ merge_trace[1].settings.email = ""
    /\ merge_profile.picture = "pp"
    /\ merge_trace[1].updated

\* C22: a GET /api/settings stores and returns, for every profile field that was
\* empty in the stored row, the first non-empty of the token claim for the field, the
\* token's cross-field fallback, the userinfo value for the field and the userinfo's
\* cross-field fallback (userinfo being what the endpoint answered, nothing if it was
\* not asked); the stored row differs from the one found exactly when a merge changed
\* a field.
C22_TokenBeforeUserinfo ==
    [][\A fetched \in Userinfos :
          (/\ req'.op = "read_settings"
           /\ read_settings(req'.caller, req'.claims, req'.flag, req'.flag, fetched)) =>
             LET before == SettingsOrNew(req'.caller)
                 token == req'.claims
                 userinfo == IF req'.flag THEN fetched ELSE EmptyProfile
                 expected ==
                    [name |-> FirstPresent(<<token.name, token.nickname,
                                             userinfo.name, userinfo.nickname>>, before.name),
                     nickname |-> FirstPresent(<<token.nickname, token.name,
                                                 userinfo.nickname, userinfo.name>>,
                                               before.nickname),
                     email |-> FirstPresent(<<token.email, userinfo.email>>, before.email),
                     image_url |-> FirstPresent(<<token.picture, userinfo.picture>>,
                                                before.image_url)]
             IN \E r \in user_settings' :
                   /\ r.user_id = req'.caller
                   /\ resp' = Ok(<<SettingsBody(r)>>)
                   /\ \A f \in ProfileFields :
                         r[f] = IF Falsy(before[f]) THEN expected[f] ELSE before[f]
                   /\ (r # before) <=>
                         \/ MergeFromProfile(before, token).updated
                         \/ MergeFromProfile(MergeFromProfile(before, token).settings,
                                             userinfo).updated]_vars

\* A GET whose token carries only a nickname returned that nickname as the name too,
\* and the email of the userinfo answer.
C22_Witness ==
    /\ req.op = "read_settings"
    /\ req.flag
    /\ req.claims = Profile(None, "tk", None, None)
    /\ resp.rows[1].name = "tk"
    /\ resp.rows[1].nickname = "tk"
    /\ resp.rows[1].email = "ie"

\* C23: when the completion call raises in GET /api/nugget (no row stored) or in
\* POST /api/nugget/regenerate, the request ends at once with the generic 500 and the
\* step leaves the nugget table as it is; a request that ends with that 500 had
\* generated no text and reached no write.
C23_GeneratorFailureWritesNothing ==
    [][\A i \in Slots :
          /\ (read_nugget_generate(i, TRUE, "raise") \/ regenerate_nugget_generate(i, TRUE, "raise")) =>
                /\ resp' = InternalServerError
                /\ req'.op = inflight[i].kind
                /\ inflight'[i] = Idle
                /\ nugget' = nugget
          /\ (inflight[i].pc # "idle" /\ inflight'[i].pc = "idle" /\ resp'.status = 500) =>
                /\ resp' = InternalServerError
                /\ nugget' = nugget
                /\ inflight[i].text = ""
                /\ inflight[i].pc \in {"start", "generate"}]_vars

\* A regenerate failed with the generic 500 while a row was stored.
C23_Witness ==
    /\ req.op = "regenerate_nugget"
    /\ resp = InternalServerError
    /\ \E n \in nugget : n.text = "w1"
    /\ \A i \in Slots : inflight[i] = Idle

\* C24: once a handler of an /api route has answered a verified caller with success,
\* the users table holds a row whose id is the caller's subject id.
C24_UserRowAfterAnyRequest ==
    (req.op \notin {"none", "verify_jwt", "health_check"} /\ resp.status = 200) =>
        UserById(req.caller) # {}

\* Every row of before but the one with the given id is in after, and after has no
\* more rows than before.
OtherRowsKept(before, after, id) ==
    /\ \A r \in before : r.id # id => r \in after
    /\ Cardinality(after) = Cardinality(before)

HardDeleteOf(row) ==
    /\ req'.op = "delete_habit" /\ req'.flag /\ resp'.status = 200
    /\ req'.id = row.habit_id /\ req'.caller = row.user_id

\* C26: a Count or WeightUpdate row, once stored, stays as it is through every
\* operation; it leaves its table only in the hard deletion of its habit. A create
\* that succeeds, whatever the sign of its value, adds one row and touches no other.
C26_EventLogsAppendOnly ==
    [][/\ \A c \in counts : c \in counts' \/ (HardDeleteOf(c) /\ \A d \in counts' : d.id # c.id)
       /\ \A w \in weight_updates :
             w \in weight_updates' \/ (HardDeleteOf(w) /\ \A d \in weight_updates' : d.id # w.id)
       /\ (req'.op = "create_count" /\ resp'.status = 200) =>
             /\ resp'.rows[1] \notin counts
             /\ counts' = counts \cup {resp'.rows[1]}
       /\ (req'.op = "create_weight_update" /\ resp'.status = 200) =>
             /\ resp'.rows[1] \notin weight_updates
             /\ weight_updates' = weight_updates \cup {resp'.rows[1]}]_vars

\* A count with a negative value was added to a soft-deleted habit that already had
\* a count, which is still stored.
C26_Witness ==
    /\ req.op = "create_count"
    /\ resp.status = 200
    /\ resp.rows[1].value = -1
    /\ \E c \in counts : c.id # resp.rows[1].id /\ c.habit_id = resp.rows[1].habit_id
    /\ \E h \in habits : h.id = resp.rows[1].habit_id /\ h.deleted_at # NULL

\* C27: no two rows of active_days have the same owner and the same date.
C27_OneActiveDayPerDate ==
    \A d1 \in active_days, d2 \in active_days :
        (d1.user_id = d2.user_id /\ d1.date = d2.date) => d1 = d2

\* C28: every sub-habit's parent habit is stored and has the sub-habit's owner; every
\* count and weight update names a stored habit of its owner; every check that names
\* a habit or a sub-habit names a stored one of its owner.
C28_ReferencesConsistent ==
    /\ \A s \in sub_habits :
          \E h \in habits : h.id = s.parent_habit_id /\ h.user_id = s.user_id
    /\ \A c \in counts \cup weight_updates :
          \E h \in habits : h.id = c.habit_id /\ h.user_id = c.user_id
    /\ \A c \in checks :
          /\ c.habit_id # NULL => \E h \in habits : h.id = c.habit_id /\ h.user_id = c.user_id
          /\ c.sub_habit_id # NULL =>
                \E s \in sub_habits : s.id = c.sub_habit_id /\ s.user_id = c.user_id

\* No two rows of users share an id or an email.
UsersUnique ==
    \A r1 \in users, r2 \in users : (r1.id = r2.id \/ r1.email = r2.email) => r1 = r2

\* C29: after every create_user, get_current_user and update_current_user no two User
\* rows share an id or an email; create_user by a caller who has a row answers 400
\* "User already exists" and update_current_user by a caller who has none answers 404
\* "User not found", and both leave the table as it is.
C29_UsersUniqueByIdAndEmail ==
    [][/\ UsersUnique'
       /\ (req'.op = "create_user" /\ UserById(req'.caller) # {}) =>
             resp' = HTTPException(400, "User already exists") /\ users' = users
       /\ (req'.op = "update_current_user" /\ UserById(req'.caller) = {}) =>
             resp' = HTTPException(404, "User not found") /\ users' = users]_vars

\* Two users have a row each, and a second create_user of one of them was refused.
C29_Witness ==
    /\ req.op = "create_user"
    /\ resp.status = 400
    /\ Cardinality(users) = 2
    /\ \E r \in users : r.id = req.caller /\ r.email # req.data.email

\* C30: a key-set fetch that raises ends its verification with 401 "Could not
\* validate credentials" and leaves the cache of _get_jwks as it was; while the cache
\* is empty only a token without a readable header is decided without a fetch; and
\* the cache takes a key set only from a fetch that succeeded.
C30_FailedFetchNotMemoized ==
    [][/\ \A i \in Slots :
             (verifying[i].pc = "request" /\ verifying'[i].pc = "idle") =>
                /\ resp' = CouldNotValidate
                /\ req' = TokenRequest(verifying[i].token, TRUE)
                /\ jwks_fetches' = jwks_fetches
                /\ jwks_cache' = jwks_cache
       /\ (~jwks_cache.cached /\ req'.op = "verify_jwt" /\ ~req'.flag
           /\ <<req, resp>>' # <<req, resp>>) =>
             ~req'.token.header_ok
       /\ (jwks_cache'.cached /\ jwks_cache' # jwks_cache) =>
             \E i \in Slots :
                /\ verifying[i].pc = "return"
                /\ jwks_cache'.keys = verifying[i].keys]_vars

\* A verification ended in 401 on a fetch that raised, nothing is cached, and a
\* verification is about to fetch.
C30_Witness ==
    /\ req.op = "verify_jwt" /\ req.flag
    /\ req.token.header_ok /\ req.token.kid \in provider_keys
    /\ resp = CouldNotValidate
    /\ ~jwks_cache.cached /\ jwks_fetches = 0
    /\ \E i \in Slots : verifying[i].pc = "request"

====
